---- MODULE Spec2Model ----
(***************************************************************************)
(* Model of the relationship/temporal analytics of imessage-wrapped.       *)
(*                                                                         *)
(* The message table (a pandas DataFrame in the source) is a sequence of   *)
(* rows; each analysis function is an operator over that sequence and an   *)
(* action applies it and records what it returned.  Time is counted in     *)
(* whole seconds (extract.py selects integer second timestamps).  Exact     *)
(* rationals stand for the floats of people.py, temporal.py and            *)
(* extended.py; the rates of health.py are binary64 floats.  Contact       *)
(* names are sequences of character codes, so that str.startswith,         *)
(* str.isdigit and the lexicographic order of names are computed.          *)
(***************************************************************************)
EXTENDS Integers, Sequences, FiniteSets, TLC

VARIABLES df, now, out, llm

vars == <<df, now, out, llm>>

(***************************************************************************)
(* Units and configuration                                                 *)
(***************************************************************************)
Hour == 3600

Day == 86400

CONVERSATION_GAP_HOURS == 4

MIN_CONVERSATIONS == 10

\* not-a-time / not-a-number markers of pandas (NaT, NaN)
NaT == -1

NaN == [num |-> 0, den |-> 0]

\* exact rationals
Frac(n, d) == [num |-> n, den |-> d]

IsNaN(a) == a.den = 0

\* comparisons with NaN are False, as in IEEE arithmetic
GT(a, b) == ~IsNaN(a) /\ ~IsNaN(b) /\ a.num * b.den > b.num * a.den

LT(a, b) == GT(b, a)

GE(a, b) == ~IsNaN(a) /\ ~IsNaN(b) /\ a.num * b.den >= b.num * a.den

LE(a, b) == GE(b, a)

(***************************************************************************)
(* Contact names                                                           *)
(***************************************************************************)
Alex == <<65, 108>>

Blair == <<66, 108>>

Casey == <<67, 97>>

\* lexicographic order of two names by character code (Python str order)
RECURSIVE NameLess(_, _)
NameLess(a, b) ==
    IF b = <<>> THEN FALSE
    ELSE IF a = <<>> THEN TRUE
    ELSE IF a[1] # b[1] THEN a[1] < b[1]
    ELSE NameLess(Tail(a), Tail(b))

(***************************************************************************)
(* The message table                                                       *)
(***************************************************************************)
Row(id, c, t, f) ==
    [message_id |-> id, contact_name |-> c, datetime |-> t, is_from_me |-> f]

ContactsOf(d) == {d[i].contact_name : i \in 1..Len(d)}

\* lexicographic order of two sort keys, each a sequence of numbers
RECURSIVE LexLess(_, _)
LexLess(a, b) ==
    IF a = <<>> \/ b = <<>> THEN FALSE
    ELSE IF LT(a[1], b[1]) THEN TRUE
    ELSE IF LT(b[1], a[1]) THEN FALSE
    ELSE LexLess(Tail(a), Tail(b))

\* stable insertion of item e (a key and a value) behind every item whose
\* key is not greater than its own
RECURSIVE InsertSorted(_, _)
InsertSorted(e, s) ==
    IF s = <<>> THEN <<e>>
    ELSE IF LexLess(e.key, s[1].key) THEN <<e>> \o s
    ELSE <<s[1]>> \o InsertSorted(e, Tail(s))

RECURSIVE SortItems(_)
SortItems(s) ==
    IF s = <<>> THEN <<>>
    ELSE InsertSorted(s[Len(s)], SortItems(SubSeq(s, 1, Len(s) - 1)))

\* a stable sort of sequence s by keys (keys[i] is the key of s[i]): np.lexsort,
\* which sort_values uses for several columns, and Python's list.sort are
\* stable
SortByKeys(s, keys) ==
    LET sorted == SortItems([i \in 1..Len(s) |->
                                [key |-> keys[i], value |-> s[i]]])
    IN  [i \in 1..Len(s) |-> sorted[i].value]

\* the place of a contact name among the names of table d, in str order
NameRank(c, d) == Cardinality({x \in ContactsOf(d) : NameLess(x, c)})

\* DataFrame.sort_values(['contact_name', 'datetime'])
SortValues(d) ==
    SortByKeys(d, [i \in 1..Len(d) |->
        <<Frac(NameRank(d[i].contact_name, d), 1), Frac(d[i].datetime, 1)>>])

\* groupby('contact_name')[col].shift(1) at position i of a sorted table
PrevIndex(s, i) ==
    IF i > 1 /\ s[i - 1].contact_name = s[i].contact_name THEN i - 1 ELSE 0

(***************************************************************************)
(* people.py: conversation starts                                          *)
(***************************************************************************)
\* line 57: hours_since_last > CONVERSATION_GAP_HOURS
GapExceeded_ge(h) == GE(h, Frac(CONVERSATION_GAP_HOURS, 1))

GapExceeded(h) == GT(h, Frac(CONVERSATION_GAP_HOURS, 1))

\* lines 54-58 on the sorted table s
FlagStarts(s) ==
    LET prev_time(i) == IF PrevIndex(s, i) = 0 THEN NaT
                        ELSE s[PrevIndex(s, i)].datetime
        hours_since_last(i) ==
            IF prev_time(i) = NaT THEN NaN
            ELSE Frac(s[i].datetime - prev_time(i), Hour)
    IN  [i \in 1..Len(s) |->
            [message_id |-> s[i].message_id,
             contact_name |-> s[i].contact_name,
             datetime |-> s[i].datetime,
             is_from_me |-> s[i].is_from_me,
             prev_time |-> prev_time(i),
             hours_since_last |-> hours_since_last(i),
             is_conversation_start |->
                 IF prev_time(i) = NaT THEN TRUE
                 ELSE GapExceeded(hours_since_last(i))]]

\* (x \in {e} binds x to the value of e, which is then computed once)
identify_conversation_starts(d) ==
    CHOOSE r \in {FlagStarts(s) : s \in {SortValues(d)}} : TRUE

\* the names of set S as a sequence in str order (groupby sorts its keys)
NamesInOrder(S) ==
    [i \in 1..Cardinality(S) |->
        CHOOSE c \in S : Cardinality({x \in S : NameLess(x, c)}) = i - 1]

\* agg(('is_from_me', 'sum')) over the rows of g
RECURSIVE SumFromMe(_)
SumFromMe(g) ==
    IF g = <<>> THEN 0 ELSE g[1].is_from_me + SumFromMe(Tail(g))

\* line 75: total_conversations >= 10
EnoughConversations_gt(total) == total > MIN_CONVERSATIONS

EnoughConversations(total) == total >= MIN_CONVERSATIONS

\* lines 68-77 on the flagged starts
InitiatorStatsOf(starts) ==
    LET names == NamesInOrder(ContactsOf(starts))
        stats == [k \in 1..Len(names) |->
            LET g == SelectSeq(starts, LAMBDA r : r.contact_name = names[k])
                total_conversations == Len(g)
                you_initiated == SumFromMe(g)
            IN  [contact_name |-> names[k],
                 total_conversations |-> total_conversations,
                 you_initiated |-> you_initiated,
                 they_initiated |-> total_conversations - you_initiated,
                 you_initiate_pct |->
                     Frac(you_initiated * 100, total_conversations)]]
        kept == SelectSeq(stats,
                    LAMBDA r : EnoughConversations(r.total_conversations))
    IN  \* sort_values('you_initiate_pct', ascending=False)
        SortByKeys(kept, [i \in 1..Len(kept) |->
            <<Frac(0 - kept[i].you_initiate_pct.num,
                   kept[i].you_initiate_pct.den)>>])

get_conversation_initiator_stats(d) ==
    CHOOSE r \in {InitiatorStatsOf(
                      SelectSeq(df_with_starts,
                                LAMBDA x : x.is_conversation_start)) :
                  df_with_starts \in {identify_conversation_starts(d)}} : TRUE

(***************************************************************************)
(* people.py, extended.py: response times                                  *)
(***************************************************************************)
\* the sorted table with the shifted columns of lines 83-87 (people.py) and
\* 40-42 (extended.py): the previous row of the same contact, or NaN
ShiftPrev(s) ==
    [i \in 1..Len(s) |->
        [message_id |-> s[i].message_id,
         contact_name |-> s[i].contact_name,
         datetime |-> s[i].datetime,
         is_from_me |-> s[i].is_from_me,
         prev_from_me |-> IF PrevIndex(s, i) = 0 THEN NaN
                          ELSE Frac(s[PrevIndex(s, i)].is_from_me, 1),
         response_seconds |->
             IF PrevIndex(s, i) = 0 THEN NaN
             ELSE Frac(s[i].datetime - s[PrevIndex(s, i)].datetime, 1)]]

WithPrev(d) == CHOOSE w \in {ShiftPrev(s) : s \in {SortValues(d)}} : TRUE

\* Series.median of the column col of the rows g (at least one row): the
\* middle value, or the mean of the two middle values
MiddleOf(v) ==
    LET n == Len(v)
    IN  IF n % 2 = 1 THEN Frac(2 * v[(n + 1) \div 2].num, 2)
        ELSE Frac(v[n \div 2].num + v[n \div 2 + 1].num, 2)

Median(g) ==
    CHOOSE m \in {MiddleOf(v) :
                  v \in {SortByKeys(g, [i \in 1..Len(g) |-> <<g[i]>>])}} : TRUE

\* the groups of groupby('contact_name') of rows g, with the median and the
\* number of their response_seconds
MedianByContact(g) ==
    LET names == NamesInOrder(ContactsOf(g))
    IN  [k \in 1..Len(names) |->
            LET rows == SelectSeq(g, LAMBDA r : r.contact_name = names[k])
            IN  [contact_name |-> names[k],
                 median_seconds |->
                     Median([i \in 1..Len(rows) |-> rows[i].response_seconds]),
                 response_count |-> Len(rows)]]

\* the median of contact c in the grouped table m, NaN when c has no group
\* (the missing side of merge(how='outer'))
Lookup(m, c) ==
    IF \E k \in 1..Len(m) : m[k].contact_name = c
    THEN m[CHOOSE k \in 1..Len(m) : m[k].contact_name = c].median_seconds
    ELSE NaN

\* x / 60 on floats
Div60(x) == IF IsNaN(x) THEN NaN ELSE Frac(x.num, x.den * 60)

\* people.py line 89: response_seconds < 86400 and response_seconds > 0
WithinDay_le(sec) == LE(sec, Frac(Day, 1)) /\ GT(sec, Frac(0, 1))

WithinDay(sec) == LT(sec, Frac(Day, 1)) /\ GT(sec, Frac(0, 1))

\* lines 99-101: the outer merge of the two median tables
MergeMedians(your_avg, their_avg) ==
    LET names == NamesInOrder(ContactsOf(your_avg) \cup ContactsOf(their_avg))
    IN  [k \in 1..Len(names) |->
            [contact_name |-> names[k],
             your_response_time_sec |-> Lookup(your_avg, names[k]),
             their_response_time_sec |-> Lookup(their_avg, names[k]),
             your_response_time_min |-> Div60(Lookup(your_avg, names[k])),
             their_response_time_min |-> Div60(Lookup(their_avg, names[k]))]]

\* lines 86-89; NaN != x is True, and the row then fails the two comparisons
DayResponses_any(w) == SelectSeq(w, LAMBDA r : WithinDay(r.response_seconds))

DayResponses(w) ==
    SelectSeq(w, LAMBDA r :
        /\ IsNaN(r.prev_from_me) \/ r.prev_from_me.num # r.is_from_me
        /\ WithinDay(r.response_seconds))

calculate_response_times(d) ==
    CHOOSE t \in
        {MergeMedians(your_avg, their_avg) :
            your_avg \in {MedianByContact(
                SelectSeq(responses, LAMBDA r : r.is_from_me = 1)) :
                    responses \in {DayResponses(WithPrev(d))}},
            their_avg \in {MedianByContact(
                SelectSeq(responses, LAMBDA r : r.is_from_me = 0)) :
                    responses \in {DayResponses(WithPrev(d))}}} : TRUE

WEEK_DAYS == 7

MIN_RESPONSES == 5

TOP_RESPONDERS == 5

\* extended.py lines 49-50: time_diff > 0 and time_diff < 86400 * 7
WithinWeek_le(sec) == GT(sec, Frac(0, 1)) /\ LE(sec, Frac(Day * WEEK_DAYS, 1))

WithinWeek(sec) == GT(sec, Frac(0, 1)) /\ LT(sec, Frac(Day * WEEK_DAYS, 1))

\* get_response_stats of extended.py: per contact median and count, contacts
\* with fewer than min_responses responses dropped (time_formatted, a display
\* string of median_seconds, is left out)
get_response_stats(resp_df) ==
    SelectSeq(MedianByContact(resp_df),
              LAMBDA r : r.response_count >= MIN_RESPONSES)

\* DataFrame.nsmallest(n, 'median_seconds') / nlargest (sign = -1)
NSmallest(stats, n, sign) ==
    LET sorted == SortByKeys(stats, [i \in 1..Len(stats) |->
                      <<Frac(sign * stats[i].median_seconds.num,
                             stats[i].median_seconds.den)>>])
    IN  SubSeq(sorted, 1, IF Len(sorted) < n THEN Len(sorted) ELSE n)

\* lines 46-51
WeekResponses(w) ==
    SelectSeq(w, LAMBDA r :
        /\ ~IsNaN(r.prev_from_me)
        /\ r.prev_from_me.num # r.is_from_me
        /\ WithinWeek(r.response_seconds))

\* lines 63-112 on the responses kept
ResponseTimeStatsOf(their_stats, your_stats, total) ==
    [available |-> TRUE,
     they_respond_fast |-> NSmallest(their_stats, TOP_RESPONDERS, 1),
     they_respond_slow |-> NSmallest(their_stats, TOP_RESPONDERS, -1),
     you_respond_fast |-> NSmallest(your_stats, TOP_RESPONDERS, 1),
     you_respond_slow |-> NSmallest(your_stats, TOP_RESPONDERS, -1),
     total_responses_analyzed |-> total]

\* lines 53-61
ResponseTimeStatsFrom(all, top_contacts) ==
    IF Len(all) = 0 THEN [available |-> FALSE]
    ELSE CHOOSE v \in
        {IF Len(responses) = 0 THEN [available |-> FALSE]
         ELSE CHOOSE x \in
            {ResponseTimeStatsOf(their_stats, your_stats, Len(responses)) :
                their_stats \in {get_response_stats(
                    SelectSeq(responses, LAMBDA r : r.is_from_me = 0))},
                your_stats \in {get_response_stats(
                    SelectSeq(responses, LAMBDA r : r.is_from_me = 1))}} : TRUE :
         responses \in
            {IF top_contacts # {}
             THEN SelectSeq(all, LAMBDA r : r.contact_name \in top_contacts)
             ELSE all}} : TRUE

\* without the tests of lines 21 and 54: statistics are reported for any table
get_response_time_stats_untested(d, top_contacts) == [available |-> TRUE]

\* top_contacts is a set of names; the empty set stands for None as well
get_response_time_stats(d, top_contacts) ==
    IF Len(d) = 0 THEN [available |-> FALSE]
    ELSE CHOOSE v \in {ResponseTimeStatsFrom(all, top_contacts) :
                          all \in {WeekResponses(WithPrev(d))}} : TRUE

(***************************************************************************)
(* extract.py: the calendar columns.  The epoch of the model is 1 January  *)
(* of START_YEAR, 00:00 local time; leap days and daylight saving shifts   *)
(* are left out of the calendar.                                           *)
(***************************************************************************)
START_YEAR == 2017

YEAR_DAYS == 365

\* df['date'] = df['datetime'].dt.date, as a day number
DateOf(t) == t \div Day

\* df['year'] = df['datetime'].dt.year
YearOf(t) == START_YEAR + DateOf(t) \div YEAR_DAYS

(***************************************************************************)
(* people.py: top contacts by year                                         *)
(***************************************************************************)
\* the distinct values of a set of numbers, ascending
NumbersInOrder(S) ==
    [i \in 1..Cardinality(S) |->
        CHOOSE x \in S : Cardinality({y \in S : y < x}) = i - 1]

\* groupby(['year', 'contact_name']).agg(count, sum): one row per group, the
\* groups in key order
YearlyCounts(d) ==
    LET years == NumbersInOrder({YearOf(d[i].datetime) : i \in 1..Len(d)})
        group(y) ==
            LET rows == SelectSeq(d, LAMBDA r : YearOf(r.datetime) = y)
                names == NamesInOrder(ContactsOf(rows))
            IN  [k \in 1..Len(names) |->
                    LET g == SelectSeq(rows,
                                 LAMBDA r : r.contact_name = names[k])
                    IN  [year |-> y,
                         contact_name |-> names[k],
                         total_messages |-> Len(g),
                         sent |-> SumFromMe(g),
                         received |-> Len(g) - SumFromMe(g)]]
        RECURSIVE concat(_)
        concat(k) == IF k = 0 THEN <<>> ELSE concat(k - 1) \o group(years[k])
    IN  concat(Len(years))

\* Series.rank(ascending=False, method='dense') of row i within its year
RankInYear_dense(yearly, i) ==
    1 + Cardinality({yearly[j].total_messages : j \in
          {j \in 1..Len(yearly) :
              /\ yearly[j].year = yearly[i].year
              /\ yearly[j].total_messages > yearly[i].total_messages}})

\* Series.rank(ascending=False, method='min') of row i within its year: the
\* rows of the year are put in descending order of total_messages and a row
\* gets the lowest position held by a row of its own total
RankInYear(yearly, i) ==
    LET group == SelectSeq(yearly, LAMBDA r : r.year = yearly[i].year)
        sorted == SortByKeys(group, [k \in 1..Len(group) |->
                      <<Frac(0 - group[k].total_messages, 1)>>])
        tied == {k \in 1..Len(sorted) :
                    sorted[k].total_messages = yearly[i].total_messages}
    IN  CHOOSE k \in tied : \A l \in tied : k <= l

\* lines 29-35 on the grouped table
TopOfYearly(yearly, n) ==
    LET ranked == [i \in 1..Len(yearly) |->
                     [year |-> yearly[i].year,
                      contact_name |-> yearly[i].contact_name,
                      total_messages |-> yearly[i].total_messages,
                      sent |-> yearly[i].sent,
                      received |-> yearly[i].received,
                      rank |-> RankInYear(yearly, i)]]
        top == SelectSeq(ranked, LAMBDA r : r.rank <= n)
    IN  \* sort_values(['year', 'rank'])
        SortByKeys(top, [i \in 1..Len(top) |->
                            <<Frac(top[i].year, 1), Frac(top[i].rank, 1)>>])

get_top_contacts_by_year(d, n) ==
    CHOOSE t \in {TopOfYearly(yearly, n) : yearly \in {YearlyCounts(d)}} : TRUE

(***************************************************************************)
(* temporal.py: longest streaks                                            *)
(***************************************************************************)
TOP_STREAKS == 10

\* lines 39-40: one row per contact and date, in contact and date order
DailyCounts(d) ==
    LET names == NamesInOrder(ContactsOf(d))
        group(c) ==
            LET rows == SelectSeq(d, LAMBDA r : r.contact_name = c)
                dates == NumbersInOrder(
                    {DateOf(rows[i].datetime) : i \in 1..Len(rows)})
            IN  [k \in 1..Len(dates) |->
                    [contact_name |-> c,
                     date |-> dates[k],
                     count |-> Len(SelectSeq(rows,
                         LAMBDA r : DateOf(r.datetime) = dates[k]))]]
        RECURSIVE concat(_)
        concat(k) == IF k = 0 THEN <<>> ELSE concat(k - 1) \o group(names[k])
    IN  concat(Len(names))

\* line 46: a date opens a new streak unless it is 1 day after the previous
\* date of the contact
NewStreak_gap2(daily, i) ==
    \/ i = 1
    \/ daily[i - 1].contact_name # daily[i].contact_name
    \/ daily[i].date - daily[i - 1].date > 2

NewStreak(daily, i) ==
    \/ i = 1
    \/ daily[i - 1].contact_name # daily[i].contact_name
    \/ daily[i].date - daily[i - 1].date # 1

\* line 47: the cumulative sum of new_streak within the contact
StreakId(daily, i) ==
    Cardinality({k \in 1..i : /\ daily[k].contact_name = daily[i].contact_name
                              /\ NewStreak(daily, k)})

\* lines 49-53: one row per (contact_name, streak_id) group of the daily
\* table, ids[i] being the streak_id of row i
StreaksOf(daily, ids) ==
    LET \* the first row of every group
        firsts == SelectSeq([i \in 1..Len(daily) |-> i],
                            LAMBDA i : NewStreak(daily, i))
    IN  [k \in 1..Len(firsts) |->
            LET members == {i \in 1..Len(daily) :
                               /\ daily[i].contact_name
                                    = daily[firsts[k]].contact_name
                               /\ ids[i] = ids[firsts[k]]}
            IN  [contact_name |-> daily[firsts[k]].contact_name,
                 streak_length |-> Cardinality(members),
                 start_date |-> CHOOSE x \in {daily[i].date : i \in members} :
                                   \A i \in members : x <= daily[i].date,
                 end_date |-> CHOOSE x \in {daily[i].date : i \in members} :
                                   \A i \in members : x >= daily[i].date]]

\* lines 55-58: idxmax keeps the first streak of the greatest length of each
\* contact
LongestOf(streaks, top_n) ==
    LET keep == {k \in 1..Len(streaks) :
                   \A l \in 1..Len(streaks) :
                      streaks[l].contact_name = streaks[k].contact_name =>
                         \/ streaks[l].streak_length < streaks[k].streak_length
                         \/ /\ streaks[l].streak_length
                                 = streaks[k].streak_length
                            /\ l >= k}
        longest == [i \in 1..Cardinality(keep) |->
                      streaks[CHOOSE k \in keep :
                          Cardinality({l \in keep : l < k}) = i - 1]]
        sorted == SortByKeys(longest, [i \in 1..Len(longest) |->
                      <<Frac(0 - longest[i].streak_length, 1)>>])
    IN  SubSeq(sorted, 1, IF Len(sorted) < top_n THEN Len(sorted) ELSE top_n)

get_longest_streaks(d, top_n) ==
    CHOOSE t \in
        {LongestOf(streaks, top_n) :
            streaks \in {StreaksOf(daily,
                            [i \in 1..Len(daily) |-> StreakId(daily, i)]) :
                         daily \in {DailyCounts(d)}}} : TRUE

(***************************************************************************)
(* health.py: Python float arithmetic, which is IEEE-754 binary64 with     *)
(* round to nearest, ties to even.  A float is [m, e] of value m * 2^e,    *)
(* where m is a natural number of exactly MantissaBits bits, or 0.  Such   *)
(* naturals are little-endian sequences of limbs below LimbBase.  Only     *)
(* non-negative values in the normal range occur in health.py.             *)
(***************************************************************************)
LimbBits == 15

LimbBase == 32768

MantissaBits == 53

RECURSIVE Big(_)
Big(n) == IF n = 0 THEN <<>> ELSE <<n % LimbBase>> \o Big(n \div LimbBase)

RECURSIVE Small(_)
Small(a) == IF a = <<>> THEN 0 ELSE Head(a) + LimbBase * Small(Tail(a))

RECURSIVE Trim(_)
Trim(a) ==
    IF a = <<>> \/ a[Len(a)] # 0 THEN a ELSE Trim(SubSeq(a, 1, Len(a) - 1))

RECURSIVE BigMulSmall(_, _, _)
BigMulSmall(a, k, carry) ==
    IF a = <<>> THEN Big(carry)
    ELSE CHOOSE r \in {<<v % LimbBase>>
                       \o BigMulSmall(Tail(a), k, v \div LimbBase) :
                      v \in {Head(a) * k + carry}} : TRUE

RECURSIVE BigAdd(_, _, _)
BigAdd(a, b, carry) ==
    IF a = <<>> THEN (IF carry = 0 THEN b ELSE BigAdd(<<carry>>, b, 0))
    ELSE IF b = <<>> THEN (IF carry = 0 THEN a ELSE BigAdd(a, <<carry>>, 0))
    ELSE CHOOSE r \in {<<v % LimbBase>>
                       \o BigAdd(Tail(a), Tail(b), v \div LimbBase) :
                      v \in {Head(a) + Head(b) + carry}} : TRUE

\* a - b - borrow for a >= b + borrow, limbs not trimmed
RECURSIVE BigSubLimbs(_, _, _)
BigSubLimbs(a, b, borrow) ==
    IF a = <<>> THEN <<>>
    ELSE CHOOSE r \in
        {<<(v + LimbBase) % LimbBase>>
         \o BigSubLimbs(Tail(a), IF b = <<>> THEN <<>> ELSE Tail(b),
                        IF v < 0 THEN 1 ELSE 0) :
         v \in {Head(a) - (IF b = <<>> THEN 0 ELSE Head(b)) - borrow}} : TRUE

BigSub(a, b) == Trim(BigSubLimbs(a, b, 0))

RECURSIVE BigLessFrom(_, _, _)
BigLessFrom(a, b, i) ==
    IF i = 0 THEN FALSE
    ELSE IF a[i] # b[i] THEN a[i] < b[i]
    ELSE BigLessFrom(a, b, i - 1)

BigLess(a, b) ==
    IF Len(a) # Len(b) THEN Len(a) < Len(b) ELSE BigLessFrom(a, b, Len(a))

RECURSIVE BigMul(_, _)
BigMul(a, b) ==
    IF a = <<>> \/ b = <<>> THEN <<>>
    ELSE BigAdd(BigMulSmall(a, Head(b), 0),
                Trim(<<0>> \o BigMul(a, Tail(b))), 0)

RECURSIVE SmallBitLen(_)
SmallBitLen(n) == IF n = 0 THEN 0 ELSE 1 + SmallBitLen(n \div 2)

BitLen(a) ==
    IF a = <<>> THEN 0
    ELSE LimbBits * (Len(a) - 1) + SmallBitLen(a[Len(a)])

RECURSIVE BigShl(_, _)
BigShl(a, s) ==
    IF a = <<>> THEN <<>>
    ELSE IF s >= LimbBits THEN <<0>> \o BigShl(a, s - LimbBits)
    ELSE BigMulSmall(a, 2 ^ s, 0)

\* quotient limbs (not trimmed) and remainder of a by a divisor d < LimbBase
RECURSIVE BigDivRem(_, _)
BigDivRem(a, d) ==
    IF a = <<>> THEN [q |-> <<>>, r |-> 0]
    ELSE CHOOSE x \in
        {[q |-> <<(hi.r * LimbBase + Head(a)) \div d>> \o hi.q,
          r |-> (hi.r * LimbBase + Head(a)) % d] :
         hi \in {BigDivRem(Tail(a), d)}} : TRUE

RECURSIVE BigShr(_, _)
BigShr(a, s) ==
    IF a = <<>> THEN <<>>
    ELSE IF s >= LimbBits THEN BigShr(Tail(a), s - LimbBits)
    ELSE Trim(BigDivRem(a, 2 ^ s).q)

IsOdd(a) == a # <<>> /\ Head(a) % 2 = 1

\* n, a natural of which the s lowest bits are dropped, rounded to the
\* nearest natural multiple of 2^s, ties to even; inexact: the value is
\* a little above n
RoundedShr(n, s, inexact) ==
    IF s = 0 THEN n
    ELSE CHOOSE r \in
        {IF /\ IsOdd(BigShr(n, s - 1))
            /\ \/ inexact
               \/ BigShl(BigShr(n, s - 1), s - 1) # n
               \/ IsOdd(q)
         THEN BigAdd(q, <<1>>, 0) ELSE q :
         q \in {BigShr(n, s)}} : TRUE

FloatZero == [m |-> <<>>, e |-> 0]

\* the mantissa that rounding carried up to 2^MantissaBits, renormalised
Normal(m, e) ==
    IF BitLen(m) > MantissaBits THEN [m |-> BigShr(m, 1), e |-> e + 1]
    ELSE [m |-> m, e |-> e]

\* the float nearest to n * 2^e (to a little above it if inexact)
FloatOf(n, e, inexact) ==
    IF n = <<>> THEN FloatZero
    ELSE CHOOSE x \in
        {IF len <= MantissaBits
         THEN [m |-> BigShl(n, MantissaBits - len),
               e |-> e - (MantissaBits - len)]
         ELSE Normal(RoundedShr(n, len - MantissaBits, inexact),
                     e + (len - MantissaBits)) :
         len \in {BitLen(n)}} : TRUE

FromInt(n) == FloatOf(Big(n), 0, FALSE)

\* x * y
FMul(x, y) == FloatOf(BigMul(x.m, y.m), x.e + y.e, FALSE)

\* restoring division: the k quotient bits of rem * 2^(k-1) by d, rem < 2 * d
RECURSIVE LongDiv(_, _, _, _)
LongDiv(rem, d, q, k) ==
    IF k = 0 THEN [q |-> q, exact |-> rem = <<>>]
    ELSE CHOOSE x \in
        {LongDiv(IF k = 1 THEN r2 ELSE BigMulSmall(r2, 2, 0), d, q2, k - 1) :
         r2 \in {IF BigLess(rem, d) THEN rem ELSE BigSub(rem, d)},
         q2 \in {BigAdd(BigMulSmall(q, 2, 0),
                        IF BigLess(rem, d) THEN <<>> ELSE <<1>>, 0)}} : TRUE

\* x / y, y # 0
FDiv(x, y) ==
    IF x.m = <<>> THEN FloatZero
    ELSE CHOOSE r \in
        {FloatOf(d.q, x.e - y.e - (MantissaBits + 1), ~d.exact) :
         d \in {LongDiv(x.m, y.m, <<>>, MantissaBits + 2)}} : TRUE

\* n / d for two integers n >= 0 and 0 < d <= 1024: the quotient of n * 2^64
\* by d then has more bits than a mantissa
IntDiv(n, d) ==
    CHOOSE r \in
        {FloatOf(Trim(x.q), 0 - 64, x.r # 0) :
         x \in {BigDivRem(BigShl(Big(n), 64), d)}} : TRUE

\* x < y
FLess(x, y) ==
    IF y.m = <<>> THEN FALSE
    ELSE IF x.m = <<>> THEN TRUE
    ELSE IF x.e # y.e THEN x.e < y.e
    ELSE BigLess(x.m, y.m)

\* x - y for x >= y
FSub(x, y) ==
    IF y.m = <<>> THEN x
    ELSE CHOOSE r \in
        {FloatOf(BigSub(BigShl(x.m, x.e - e), BigShl(y.m, y.e - e)), e, FALSE) :
         e \in {IF x.e < y.e THEN x.e ELSE y.e}} : TRUE

\* round(x * scale) to the nearest integer, ties to even: round(x, 1) is
\* that integer over 10 with scale = 10, and format(x, '.0f') prints it with
\* scale = 1
Rounded(x, scale) ==
    IF x.m = <<>> THEN 0
    ELSE IF x.e >= 0 THEN Small(BigShl(BigMulSmall(x.m, scale, 0), x.e))
    ELSE Small(RoundedShr(BigMulSmall(x.m, scale, 0), 0 - x.e, FALSE))

\* the float literals of health.py
One == [m |-> <<0, 0, 0, 128>>, e |-> -52]

PointFive == [m |-> <<0, 0, 0, 128>>, e |-> -53]

PointThree == [m |-> <<13107, 26214, 19660, 153>>, e |-> -54]

PointTwo == [m |-> <<6554, 13107, 26214, 204>>, e |-> -55]

(***************************************************************************)
(* health.py: fading friendships and emerging connections                  *)
(***************************************************************************)
\* names that are not those of a person: "+15", "urn:b", "4 2"
Phone == <<43, 49, 53>>

Urn == <<117, 114, 110, 58, 98>>

Code == <<52, 32, 50>>

Dana == <<68, 97>>

\* str.startswith
StartsWith(name, prefix) ==
    Len(name) >= Len(prefix) /\ SubSeq(name, 1, Len(prefix)) = prefix

\* contact.startswith('urn:') or contact.startswith('+')
IsIdentifier(contact) ==
    StartsWith(contact, <<117, 114, 110, 58>>) \/ StartsWith(contact, <<43>>)

\* contact.replace(' ', '').isdigit()
IsDigits(contact) ==
    LET s == SelectSeq(contact, LAMBDA ch : ch # 32)
    IN  s # <<>> /\ \A i \in 1..Len(s) : s[i] \in 48..57

\* the day of the year (from 0) on which each month starts
MonthStarts == <<0, 31, 59, 90, 120, 151, 181, 212, 243, 273, 304, 334>>

\* datetime.month
MonthOf(t) ==
    Cardinality({k \in 1..12 : MonthStarts[k] <= DateOf(t) % YEAR_DAYS})

\* dt.to_period('M'), as the number of the month since year 0
PeriodOf(t) == YearOf(t) * 12 + MonthOf(t)

\* strftime('%Y-%m-%d'), as year, month, day of the month
DateText(t) ==
    <<YearOf(t), MonthOf(t),
      (DateOf(t) % YEAR_DAYS) - MonthStarts[MonthOf(t)] + 1>>

\* df['contact_name'].unique(): the names in the order of first appearance
Unique(d) ==
    LET S == ContactsOf(d)
        first == [c \in S |-> CHOOSE i \in 1..Len(d) :
                     /\ d[i].contact_name = c
                     /\ \A j \in 1..(i - 1) : d[j].contact_name # c]
    IN  [k \in 1..Cardinality(S) |->
            CHOOSE c \in S :
                Cardinality({x \in S : first[x] < first[c]}) = k - 1]

\* (now - t).days
DaysSince(clock, t) == (clock - t) \div Day

\* len(contact_df[contact_df['datetime'] >= lo])
CountSince(contact_df, lo) ==
    Len(SelectSeq(contact_df, LAMBDA r : r.datetime >= lo))

\* a window without its upper end, which would reach into the recent one
CountWithin_open(contact_df, lo, hi) ==
    Len(SelectSeq(contact_df, LAMBDA r : r.datetime >= lo))

\* len(contact_df[(contact_df['datetime'] >= lo) & (contact_df['datetime'] < hi)])
CountWithin(contact_df, lo, hi) ==
    Len(SelectSeq(contact_df, LAMBDA r : r.datetime >= lo /\ r.datetime < hi))

\* the greatest of the numbers s[lo..hi]
RECURSIVE Greatest(_, _, _)
Greatest(s, lo, hi) ==
    IF lo = hi THEN s[lo]
    ELSE CHOOSE r \in
        {IF a > b THEN a ELSE b :
         a \in {Greatest(s, lo, (lo + hi) \div 2)},
         b \in {Greatest(s, (lo + hi) \div 2 + 1, hi)}} : TRUE

\* contact_df['datetime'].max(), .min()
LastOf(contact_df) ==
    Greatest([i \in 1..Len(contact_df) |-> contact_df[i].datetime],
             1, Len(contact_df))

FirstOf(contact_df) ==
    0 - Greatest([i \in 1..Len(contact_df) |-> 0 - contact_df[i].datetime],
                 1, Len(contact_df))

\* count / days * 7
WeeklyRate(count, days) == FMul(IntDiv(count, days), FromInt(7))

RECURSIVE Concat(_)
Concat(lists) ==
    IF lists = <<>> THEN <<>> ELSE Head(lists) \o Concat(Tail(lists))

\* line 39
Dormant_twice(days_since, max_inactive_days) ==
    days_since > 2 * max_inactive_days

Dormant(days_since, max_inactive_days) == days_since > max_inactive_days

\* lines 61 and 67
TooFewPrior_53(count) == count < 53

TooFewPrior(count) == count < 15

\* line 77: recent_rate < prior_rate * 0.3
FadedBelow(recent_rate, prior_rate) ==
    FLess(recent_rate, FMul(prior_rate, PointThree))

\* lines 77-89
FadingEntry(contact, total, active_months, days_since, last_msg, prior_rate, recent_rate) ==
    IF ~FLess(prior_rate, One) /\ FadedBelow(recent_rate, prior_rate)
    THEN <<[contact_name |-> contact,
            total_messages |-> total,
            active_months |-> active_months,
            baseline_rate |-> Frac(Rounded(prior_rate, 10), 10),
            recent_rate |-> Frac(Rounded(recent_rate, 10), 10),
            drop_percentage |->
                Frac(Rounded(FMul(FSub(One, FDiv(recent_rate, prior_rate)),
                                  FromInt(100)), 10), 10),
            days_since_contact |-> days_since,
            last_contact_date |-> DateText(last_msg)]>>
    ELSE <<>>

\* lines 30-89 for the rows contact_df of one contact: its entry, or nothing
FadingGates(contact, contact_df, clock, min_messages, max_inactive_days) ==
    IF Len(contact_df) < min_messages THEN <<>>
    ELSE CHOOSE x \in
        {IF Dormant(DaysSince(clock, last_msg), max_inactive_days) THEN <<>>
         ELSE IF active_months < 3 THEN <<>>
         ELSE IF CountSince(contact_df, clock - 730 * Day) < 30 THEN <<>>
         ELSE IF TooFewPrior(prior_year) /\ TooFewPrior(prior_period) THEN <<>>
         ELSE CHOOSE y \in
            {FadingEntry(contact, Len(contact_df), active_months,
                         DaysSince(clock, last_msg), last_msg,
                         prior_rate, recent_rate) :
             prior_rate \in {IF TooFewPrior(prior_year)
                             THEN WeeklyRate(prior_period, 180)
                             ELSE WeeklyRate(prior_year, 365)},
             recent_rate \in
                {WeeklyRate(CountSince(contact_df, clock - 90 * Day), 90)}} :
            TRUE :
         last_msg \in {LastOf(contact_df)},
         active_months \in
            {Cardinality({PeriodOf(contact_df[i].datetime) :
                            i \in 1..Len(contact_df)})},
         prior_year \in
            {CountWithin(contact_df, clock - 365 * Day - 365 * Day,
                         clock - 365 * Day)},
         prior_period \in
            {CountWithin(contact_df, clock - 270 * Day, clock - 90 * Day)}} :
        TRUE

\* lines 25-28
FadingOf(contact, d, clock, min_messages, max_inactive_days) ==
    IF IsIdentifier(contact) THEN <<>>
    ELSE CHOOSE x \in
        {FadingGates(contact, contact_df, clock, min_messages,
                     max_inactive_days) :
         contact_df \in
            {SelectSeq(d, LAMBDA r : r.contact_name = contact)}} : TRUE

\* clock is the reading of pd.Timestamp.now()
detect_fading_friendships(d, clock, min_messages, max_inactive_days) ==
    CHOOSE r \in
        {SubSeq(sorted, 1, IF Len(sorted) < 10 THEN Len(sorted) ELSE 10) :
         sorted \in
            {SortByKeys(fading, [i \in 1..Len(fading) |->
                <<Frac(0 - fading[i].drop_percentage.num,
                       fading[i].drop_percentage.den)>>]) :
             fading \in
                {Concat([k \in 1..Len(names) |->
                    FadingOf(names[k], d, clock, min_messages,
                             max_inactive_days)]) :
                 names \in {Unique(d)}}}} : TRUE

\* line 159: prior_rate < 0.2
WasDormant_half(prior_rate) == FLess(prior_rate, PointFive)

WasDormant(prior_rate) == FLess(prior_rate, PointTwo)

\* the decimal digits of a natural number, as character codes
RECURSIVE Digits(_)
Digits(n) ==
    IF n < 10 THEN <<48 + n>> ELSE Digits(n \div 10) \o <<48 + (n % 10)>>

\* 'Revived'
RevivedLabel == <<82, 101, 118, 105, 118, 101, 100>>

\* f'{growth_factor:.0f}x'
GrowthLabel(growth_factor) == Digits(Rounded(growth_factor, 1)) \o <<120>>

\* lines 155-186
EmergingEntry(contact, total, recent_count, relationship_days, prior_rate, recent_rate) ==
    IF WasDormant(prior_rate) /\ ~FLess(recent_rate, PointFive)
    THEN <<[contact_name |-> contact,
            total_messages |-> total,
            recent_messages |-> recent_count,
            baseline_rate |-> Frac(Rounded(prior_rate, 10), 10),
            msgs_per_week |-> Frac(Rounded(recent_rate, 10), 10),
            growth |-> RevivedLabel,
            is_new |-> FALSE,
            is_revived |-> TRUE,
            relationship_days |-> relationship_days]>>
    ELSE IF /\ ~FLess(prior_rate, PointTwo)
            /\ ~FLess(recent_rate, FMul(prior_rate, FromInt(5)))
    THEN <<[contact_name |-> contact,
            total_messages |-> total,
            recent_messages |-> recent_count,
            baseline_rate |-> Frac(Rounded(prior_rate, 10), 10),
            msgs_per_week |-> Frac(Rounded(recent_rate, 10), 10),
            growth |-> GrowthLabel(FDiv(recent_rate, prior_rate)),
            is_new |-> FALSE,
            is_revived |-> FALSE,
            relationship_days |-> relationship_days]>>
    ELSE <<>>

\* lines 128-186 for the rows contact_df of one contact: its entry, or
\* nothing
EmergingGates(contact, contact_df, clock, min_recent_messages) ==
    CHOOSE x \in
        {IF DaysSince(clock, LastOf(contact_df)) > 30 THEN <<>>
         ELSE IF relationship_days < 60 THEN <<>>
         ELSE IF recent_count < min_recent_messages THEN <<>>
         ELSE CHOOSE y \in
            {EmergingEntry(contact, Len(contact_df), recent_count,
                           relationship_days, prior_rate, recent_rate) :
             prior_rate \in {WeeklyRate(prior_count, 180)},
             recent_rate \in {WeeklyRate(recent_count, 30)}} : TRUE :
         relationship_days \in {DaysSince(clock, FirstOf(contact_df))},
         recent_count \in {CountSince(contact_df, clock - 30 * Day)},
         prior_count \in
            {CountWithin(contact_df, clock - 210 * Day, clock - 30 * Day)}} :
        TRUE

\* lines 120-126
EmergingOf(contact, d, clock, min_recent_messages) ==
    IF IsIdentifier(contact) \/ IsDigits(contact) THEN <<>>
    ELSE CHOOSE x \in
        {EmergingGates(contact, contact_df, clock, min_recent_messages) :
         contact_df \in
            {SelectSeq(d, LAMBDA r : r.contact_name = contact)}} : TRUE

detect_new_connections(d, clock, min_recent_messages) ==
    CHOOSE r \in
        {SubSeq(sorted, 1, IF Len(sorted) < 10 THEN Len(sorted) ELSE 10) :
         sorted \in
            {SortByKeys(emerging, [i \in 1..Len(emerging) |->
                <<Frac(0 - emerging[i].msgs_per_week.num,
                       emerging[i].msgs_per_week.den)>>]) :
             emerging \in
                {Concat([k \in 1..Len(names) |->
                    EmergingOf(names[k], d, clock, min_recent_messages)]) :
                 names \in {Unique(d)}}}} : TRUE

(***************************************************************************)
(* people.py: lopsidedness and all-time top contacts; temporal.py: yearly  *)
(* volume                                                                  *)
(***************************************************************************)
MIN_MESSAGES_FOR_TOP_CONTACT == 10

TOP_CONTACTS_COUNT == 15

\* the float literal 0.1
PointOne == [m |-> <<6554, 13107, 26214, 204>>, e |-> -56]

\* x + y
FAdd(x, y) ==
    IF x.m = <<>> THEN y
    ELSE IF y.m = <<>> THEN x
    ELSE CHOOSE r \in
        {FloatOf(BigAdd(BigShl(x.m, x.e - e), BigShl(y.m, y.e - e), 0),
                 e, FALSE) :
         e \in {IF x.e < y.e THEN x.e ELSE y.e}} : TRUE

\* sort_values(col, ascending=False) on a float column: the rows of s in
\* descending order of keys, rows of equal key in their order in s
SortDescending(s, keys) ==
    LET place(i) ==
            1 + Cardinality({j \in 1..Len(s) :
                    \/ FLess(keys[i], keys[j])
                    \/ keys[j] = keys[i] /\ j < i})
    IN  [p \in 1..Len(s) |-> s[CHOOSE i \in 1..Len(s) : place(i) = p]]

\* people.py line 45: the denominator received + 0.1
Smoothed_one(received) == FAdd(FromInt(received), One)

Smoothed(received) == FAdd(FromInt(received), PointOne)

\* line 46: total >= MIN_MESSAGES_FOR_TOP_CONTACT
EnoughMessages(total) == total >= MIN_MESSAGES_FOR_TOP_CONTACT

\* lines 39-45: one row per contact, in str order of the names
LopsidednessStats(d) ==
    LET names == NamesInOrder(ContactsOf(d))
    IN  [k \in 1..Len(names) |->
            CHOOSE row \in
                {[contact_name |-> names[k],
                  sent |-> sent,
                  total |-> Len(g),
                  received |-> Len(g) - sent,
                  lopsidedness |->
                      FDiv(FromInt(sent), Smoothed(Len(g) - sent))] :
                 g \in {SelectSeq(d, LAMBDA r : r.contact_name = names[k])},
                 sent \in {SumFromMe(
                     SelectSeq(d, LAMBDA r : r.contact_name = names[k]))}} :
                TRUE]

calculate_lopsidedness(d) ==
    CHOOSE r \in
        {SortDescending(kept, [i \in 1..Len(kept) |-> kept[i].lopsidedness]) :
         kept \in {SelectSeq(stats, LAMBDA x : EnoughMessages(x.total)) :
                   stats \in {LopsidednessStats(d)}}} : TRUE

\* people.py lines 8-16: one row per contact, in str order of the names
AlltimeCounts(d) ==
    LET names == NamesInOrder(ContactsOf(d))
    IN  [k \in 1..Len(names) |->
            CHOOSE row \in
                {[contact_name |-> names[k],
                  total_messages |-> Len(g),
                  sent |-> sent,
                  years_active |->
                      Cardinality({YearOf(g[i].datetime) : i \in 1..Len(g)}),
                  first_message |-> FirstOf(g),
                  last_message |-> LastOf(g),
                  received |-> Len(g) - sent] :
                 g \in {SelectSeq(d, LAMBDA r : r.contact_name = names[k])},
                 sent \in {SumFromMe(
                     SelectSeq(d, LAMBDA r : r.contact_name = names[k]))}} :
                TRUE]

\* lines 17-19: sort_values('total_messages', ascending=False).head(n)
get_top_contacts_alltime(d, n) ==
    CHOOSE r \in
        {SubSeq(sorted, 1, IF Len(sorted) < n THEN Len(sorted) ELSE n) :
         sorted \in
            {SortByKeys(counts, [i \in 1..Len(counts) |->
                <<Frac(0 - counts[i].total_messages, 1)>>]) :
             counts \in {AlltimeCounts(d)}}} : TRUE

\* temporal.py lines 28-35: one row per year, the years ascending
get_yearly_volume(d) ==
    LET years == NumbersInOrder({YearOf(d[i].datetime) : i \in 1..Len(d)})
    IN  [k \in 1..Len(years) |->
            CHOOSE row \in
                {[year |-> years[k],
                  total |-> Len(g),
                  sent |-> SumFromMe(g),
                  received |-> Len(g) - SumFromMe(g)] :
                 g \in {SelectSeq(d,
                     LAMBDA r : YearOf(r.datetime) = years[k])}} : TRUE]

(***************************************************************************)
(* main.py: the contacts kept for the analyses                             *)
(***************************************************************************)
\* config.py: EXCLUDED_CONTACTS, lower-cased, is empty
EXCLUDED_CONTACTS == {}

\* the float literal 0.05 of MIN_TWO_WAY_RATIO
MIN_TWO_WAY_RATIO == [m |-> <<6554, 13107, 26214, 204>>, e |-> -57]

\* the characters that str.strip removes, and '0'..'9'
Whitespace == {9, 10, 11, 12, 13, 32}

DigitChars == 48..57

\* str.strip
RECURSIVE Strip(_)
Strip(name) ==
    IF name = <<>> THEN <<>>
    ELSE IF Head(name) \in Whitespace THEN Strip(Tail(name))
    ELSE IF name[Len(name)] \in Whitespace
         THEN Strip(SubSeq(name, 1, Len(name) - 1))
    ELSE name

\* main.py lines 87-101; len(digits) / len(name_str) > 0.5 is computed on
\* integers, which decides the same for names shorter than 2^52 characters
is_phone_or_code(name) ==
    IF name = <<>> THEN TRUE
    ELSE \E name_str \in {Strip(name)} :
         \E digits \in {SelectSeq(Strip(name), LAMBDA ch : ch \in DigitChars)} :
            \/ name_str # <<>> /\ digits = name_str
            \/ StartsWith(name_str, <<43>>)
            \/ Len(digits) > 0 /\ 2 * Len(digits) > Len(name_str)

\* lines 83 and 104: the rows of named contacts that are not excluded
NamedRows(d) ==
    SelectSeq(d, LAMBDA r :
        r.contact_name \notin EXCLUDED_CONTACTS
        /\ ~is_phone_or_code(r.contact_name))

\* lines 117-118: sent_ratio >= MIN_TWO_WAY_RATIO and
\* sent_ratio <= 1 - MIN_TWO_WAY_RATIO
TwoWay_lower(sent_ratio) == ~FLess(sent_ratio, MIN_TWO_WAY_RATIO)

TwoWay(sent_ratio) ==
    /\ ~FLess(sent_ratio, MIN_TWO_WAY_RATIO)
    /\ ~FLess(FSub(One, MIN_TWO_WAY_RATIO), sent_ratio)

\* lines 108-119: the names of the contacts with messages in both directions
TwoWayContacts(d) ==
    {c \in ContactsOf(d) :
        \E g \in {SelectSeq(d, LAMBDA r : r.contact_name = c)} :
            TwoWay(IntDiv(SumFromMe(g), Len(g)))}

\* line 122
TwoWayRows(d) ==
    CHOOSE r \in
        {SelectSeq(d, LAMBDA x : x.contact_name \in two_way_contacts) :
         two_way_contacts \in {TwoWayContacts(d)}} : TRUE

(***************************************************************************)
(* main.py step 9: the pronouns of the messages sent to a contact.  A text *)
(* is a sequence of character codes, as a name is.                         *)
(***************************************************************************)
\* the float literal of line 525
PointSeven == [m |-> <<26214, 19660, 6553, 179>>, e |-> -53]

\* the messages a contact needs to be rated, and to be named in an insight
VALID_CONTACT_MESSAGES == 100

TOP_CONTACT_MESSAGES == 500

\* a row with the text column of extract.py
TextRow(id, c, t, f, text) ==
    [message_id |-> id, contact_name |-> c, datetime |-> t, is_from_me |-> f,
     text |-> text]

\* str.lower() on a character
Lower(ch) == IF ch \in 65..90 THEN ch + 32 ELSE ch

\* the characters \w matches, and \b before position i
WordChar(ch) == ch \in (48..57) \cup (65..90) \cup (97..122) \cup {95}

Boundary(text, i) ==
    (i >= 1 /\ i <= Len(text) /\ WordChar(text[i]))
        # (i >= 2 /\ i <= Len(text) + 1 /\ WordChar(text[i - 1]))

\* \bword\b matches the lowered text from position i on
MatchesAt(text, i, word) ==
    /\ i + Len(word) - 1 <= Len(text)
    /\ \A k \in 1..Len(word) : Lower(text[i + k - 1]) = word[k]
    /\ Boundary(text, i)
    /\ Boundary(text, i + Len(word))

\* lines 446-449: len(re.findall(pattern, str(text).lower())) for a pattern
\* \bw1\b|\bw2\b|... of whole words
count_pattern(text, words) ==
    Cardinality({i \in 1..Len(text) : \E w \in words : MatchesAt(text, i, w)})

\* the words of lines 465 and 466 (the alternative \bi\' of line 465 matches
\* only where \bi\b, which stands before it, matches)
IWords == {<<105>>, <<109, 121>>, <<109, 101>>}

YouWords == {<<121, 111, 117>>, <<121, 111, 117, 114>>}

\* line 452: contact_msg_counts
MessageCount(d, c) == Cardinality({i \in 1..Len(d) : d[i].contact_name = c})

\* lines 451-454: the positions of the sent messages to contact c, c being a
\* contact with at least 100 messages
SentTexts(d, c) ==
    {i \in 1..Len(d) :
        /\ d[i].is_from_me = 1
        /\ d[i].contact_name = c
        /\ MessageCount(d, c) >= VALID_CONTACT_MESSAGES}

\* groupby('contact_name')[...].mean() of the count of words in the sent
\* messages at positions S
MeanCount(d, S, words) ==
    IntDiv(Cardinality({<<i, j>> \in S \X (1..Len(d)) :
                           /\ j <= Len(d[i].text)
                           /\ \E w \in words : MatchesAt(d[i].text, j, w)}),
           Cardinality(S))

\* line 469: i_rate / (you_rate + 0.1)
i_you_ratio(d, c) ==
    FDiv(MeanCount(d, SentTexts(d, c), IWords),
         FAdd(MeanCount(d, SentTexts(d, c), YouWords), PointOne))

\* line 515: the index of i_you_ratio[i_you_ratio.index.isin(top_500)]
RatedTopContacts(d) ==
    {c \in ContactsOf(d) :
        /\ SentTexts(d, c) # {}
        /\ MessageCount(d, c) >= TOP_CONTACT_MESSAGES}

\* line 515: nsmallest(3), of which lines 525-527 read the first entry
most_other(d) ==
    LET ratio == [c \in RatedTopContacts(d) |-> i_you_ratio(d, c)]
        least == {c \in RatedTopContacts(d) :
                     \A x \in RatedTopContacts(d) : ~FLess(ratio[x], ratio[c])}
    IN  IF least = {} THEN <<>>
        ELSE <<[contact_name |-> NamesInOrder(least)[1],
                i_you_ratio |-> ratio[NamesInOrder(least)[1]]]>>

\* lines 464-531: the denominators of the divisions of lines 469, 489 and
\* 527, and the insight of lines 525-531
FocusedOnThem(d) ==
    LET rated == NamesInOrder({c \in ContactsOf(d) : SentTexts(d, c) # {}})
        least == most_other(d)
        focused == least # <<>> /\ FLess(least[1].i_you_ratio, PointSeven)
    IN  [denominators |->
            [k \in 1..Len(rated) |->
                FAdd(MeanCount(d, SentTexts(d, rated[k]), YouWords), PointOne)]
            \o [k \in 1..Len(rated) |->
                FAdd(MeanCount(d, SentTexts(d, rated[k]), IWords), PointOne)]
            \o (IF focused THEN <<least[1].i_you_ratio>> ELSE <<>>),
         insight |-> IF focused THEN <<least[1].contact_name>> ELSE <<>>]

(***************************************************************************)
(* content.py: the phrases of a year.  A text, a word and a phrase are     *)
(* sequences of character codes; the table holds the clean_text column of  *)
(* line 155.                                                               *)
(***************************************************************************)
\* config.py lines 33-57
BORING_PHRASES ==
    {
     \* sounds good, on my way
     <<115, 111, 117, 110, 100, 115, 32, 103, 111, 111, 100>>, <<111, 110, 32, 109, 121, 32, 119, 97, 121>>,
     \* be there, see you
     <<98, 101, 32, 116, 104, 101, 114, 101>>, <<115, 101, 101, 32, 121, 111, 117>>,
     \* got it, ok, okay
     <<103, 111, 116, 32, 105, 116>>, <<111, 107>>, <<111, 107, 97, 121>>,
     \* yeah, yep, yea
     <<121, 101, 97, 104>>, <<121, 101, 112>>, <<121, 101, 97>>,
     \* ya, haha, hahaha
     <<121, 97>>, <<104, 97, 104, 97>>, <<104, 97, 104, 97, 104, 97>>,
     \* lol, omg, idk
     <<108, 111, 108>>, <<111, 109, 103>>, <<105, 100, 107>>,
     \* i know, i think
     <<105, 32, 107, 110, 111, 119>>, <<105, 32, 116, 104, 105, 110, 107>>,
     \* thank you, thanks
     <<116, 104, 97, 110, 107, 32, 121, 111, 117>>, <<116, 104, 97, 110, 107, 115>>,
     \* no problem, good morning
     <<110, 111, 32, 112, 114, 111, 98, 108, 101, 109>>, <<103, 111, 111, 100, 32, 109, 111, 114, 110, 105, 110, 103>>,
     \* good night, have a good
     <<103, 111, 111, 100, 32, 110, 105, 103, 104, 116>>, <<104, 97, 118, 101, 32, 97, 32, 103, 111, 111, 100>>,
     \* talk to you, let me know
     <<116, 97, 108, 107, 32, 116, 111, 32, 121, 111, 117>>, <<108, 101, 116, 32, 109, 101, 32, 107, 110, 111, 119>>,
     \* i will, i can, i don't
     <<105, 32, 119, 105, 108, 108>>, <<105, 32, 99, 97, 110>>, <<105, 32, 100, 111, 110, 39, 116>>,
     \* do you, are you
     <<100, 111, 32, 121, 111, 117>>, <<97, 114, 101, 32, 121, 111, 117>>,
     \* what time, how are
     <<119, 104, 97, 116, 32, 116, 105, 109, 101>>, <<104, 111, 119, 32, 97, 114, 101>>,
     \* i'm good, that's good
     <<105, 39, 109, 32, 103, 111, 111, 100>>, <<116, 104, 97, 116, 39, 115, 32, 103, 111, 111, 100>>,
     \* sounds great, see you soon
     <<115, 111, 117, 110, 100, 115, 32, 103, 114, 101, 97, 116>>, <<115, 101, 101, 32, 121, 111, 117, 32, 115, 111, 111, 110>>,
     \* on the way, almost there
     <<111, 110, 32, 116, 104, 101, 32, 119, 97, 121>>, <<97, 108, 109, 111, 115, 116, 32, 116, 104, 101, 114, 101>>,
     \* be right there
     <<98, 101, 32, 114, 105, 103, 104, 116, 32, 116, 104, 101, 114, 101>>,
     \* i'm here, where are
     <<105, 39, 109, 32, 104, 101, 114, 101>>, <<119, 104, 101, 114, 101, 32, 97, 114, 101>>,
     \* what's up, not much
     <<119, 104, 97, 116, 39, 115, 32, 117, 112>>, <<110, 111, 116, 32, 109, 117, 99, 104>>,
     \* same here, i feel like
     <<115, 97, 109, 101, 32, 104, 101, 114, 101>>, <<105, 32, 102, 101, 101, 108, 32, 108, 105, 107, 101>>,
     \* trying to, going to
     <<116, 114, 121, 105, 110, 103, 32, 116, 111>>, <<103, 111, 105, 110, 103, 32, 116, 111>>,
     \* want to, need to
     <<119, 97, 110, 116, 32, 116, 111>>, <<110, 101, 101, 100, 32, 116, 111>>,
     \* have to, about it
     <<104, 97, 118, 101, 32, 116, 111>>, <<97, 98, 111, 117, 116, 32, 105, 116>>,
     \* about that, it was
     <<97, 98, 111, 117, 116, 32, 116, 104, 97, 116>>, <<105, 116, 32, 119, 97, 115>>,
     \* it is, that is, that was
     <<105, 116, 32, 105, 115>>, <<116, 104, 97, 116, 32, 105, 115>>, <<116, 104, 97, 116, 32, 119, 97, 115>>,
     \* this is, i was, i am
     <<116, 104, 105, 115, 32, 105, 115>>, <<105, 32, 119, 97, 115>>, <<105, 32, 97, 109>>,
     \* kind of, sort of
     <<107, 105, 110, 100, 32, 111, 102>>, <<115, 111, 114, 116, 32, 111, 102>>,
     \* a lot, a bit, so much
     <<97, 32, 108, 111, 116>>, <<97, 32, 98, 105, 116>>, <<115, 111, 32, 109, 117, 99, 104>>,
     \* too much, right now
     <<116, 111, 111, 32, 109, 117, 99, 104>>, <<114, 105, 103, 104, 116, 32, 110, 111, 119>>,
     \* at least, i mean
     <<97, 116, 32, 108, 101, 97, 115, 116>>, <<105, 32, 109, 101, 97, 110>>,
     \* you know, i guess
     <<121, 111, 117, 32, 107, 110, 111, 119>>, <<105, 32, 103, 117, 101, 115, 115>>,
     \* i just, just like
     <<105, 32, 106, 117, 115, 116>>, <<106, 117, 115, 116, 32, 108, 105, 107, 101>>,
     \* like that, like this
     <<108, 105, 107, 101, 32, 116, 104, 97, 116>>, <<108, 105, 107, 101, 32, 116, 104, 105, 115>>,
     \* for the, in the
     <<102, 111, 114, 32, 116, 104, 101>>, <<105, 110, 32, 116, 104, 101>>,
     \* on the, to the, at the
     <<111, 110, 32, 116, 104, 101>>, <<116, 111, 32, 116, 104, 101>>, <<97, 116, 32, 116, 104, 101>>,
     \* and the, but the
     <<97, 110, 100, 32, 116, 104, 101>>, <<98, 117, 116, 32, 116, 104, 101>>,
     \* with the, from the
     <<119, 105, 116, 104, 32, 116, 104, 101>>, <<102, 114, 111, 109, 32, 116, 104, 101>>,
     \* of the, is the, was the
     <<111, 102, 32, 116, 104, 101>>, <<105, 115, 32, 116, 104, 101>>, <<119, 97, 115, 32, 116, 104, 101>>,
     \* be like, would be
     <<98, 101, 32, 108, 105, 107, 101>>, <<119, 111, 117, 108, 100, 32, 98, 101>>,
     \* could be, should be
     <<99, 111, 117, 108, 100, 32, 98, 101>>, <<115, 104, 111, 117, 108, 100, 32, 98, 101>>,
     \* might be, dont know
     <<109, 105, 103, 104, 116, 32, 98, 101>>, <<100, 111, 110, 116, 32, 107, 110, 111, 119>>,
     \* didnt know, im not
     <<100, 105, 100, 110, 116, 32, 107, 110, 111, 119>>, <<105, 109, 32, 110, 111, 116>>,
     \* im gonna, im going
     <<105, 109, 32, 103, 111, 110, 110, 97>>, <<105, 109, 32, 103, 111, 105, 110, 103>>,
     \* thats so, its so
     <<116, 104, 97, 116, 115, 32, 115, 111>>, <<105, 116, 115, 32, 115, 111>>,
     \* so good, so bad
     <<115, 111, 32, 103, 111, 111, 100>>, <<115, 111, 32, 98, 97, 100>>,
     \* so many, to talk about
     <<115, 111, 32, 109, 97, 110, 121>>, <<116, 111, 32, 116, 97, 108, 107, 32, 97, 98, 111, 117, 116>>,
     \* talk about it
     <<116, 97, 108, 107, 32, 97, 98, 111, 117, 116, 32, 105, 116>>,
     \* think about it
     <<116, 104, 105, 110, 107, 32, 97, 98, 111, 117, 116, 32, 105, 116>>,
     \* about this, both of us
     <<97, 98, 111, 117, 116, 32, 116, 104, 105, 115>>, <<98, 111, 116, 104, 32, 111, 102, 32, 117, 115>>,
     \* one of us, all of us
     <<111, 110, 101, 32, 111, 102, 32, 117, 115>>, <<97, 108, 108, 32, 111, 102, 32, 117, 115>>,
     \* any of us, accept the invite
     <<97, 110, 121, 32, 111, 102, 32, 117, 115>>, <<97, 99, 99, 101, 112, 116, 32, 116, 104, 101, 32, 105, 110, 118, 105, 116, 101>>,
     \* gmail com, yahoo com
     <<103, 109, 97, 105, 108, 32, 99, 111, 109>>, <<121, 97, 104, 111, 111, 32, 99, 111, 109>>,
     \* hotmail com
     <<104, 111, 116, 109, 97, 105, 108, 32, 99, 111, 109>>
    }

\* config.py lines 60 ff.
BORING_WORDS ==
    {
     \* the, a, an
     <<116, 104, 101>>, <<97>>, <<97, 110>>,
     \* is, are, was
     <<105, 115>>, <<97, 114, 101>>, <<119, 97, 115>>,
     \* were, be, been
     <<119, 101, 114, 101>>, <<98, 101>>, <<98, 101, 101, 110>>,
     \* being, have, has
     <<98, 101, 105, 110, 103>>, <<104, 97, 118, 101>>, <<104, 97, 115>>,
     \* had, do, does
     <<104, 97, 100>>, <<100, 111>>, <<100, 111, 101, 115>>,
     \* did, will, would
     <<100, 105, 100>>, <<119, 105, 108, 108>>, <<119, 111, 117, 108, 100>>,
     \* could, should, may
     <<99, 111, 117, 108, 100>>, <<115, 104, 111, 117, 108, 100>>, <<109, 97, 121>>,
     \* might, must, shall
     <<109, 105, 103, 104, 116>>, <<109, 117, 115, 116>>, <<115, 104, 97, 108, 108>>,
     \* can, need, dare
     <<99, 97, 110>>, <<110, 101, 101, 100>>, <<100, 97, 114, 101>>,
     \* ought, used, to
     <<111, 117, 103, 104, 116>>, <<117, 115, 101, 100>>, <<116, 111>>,
     \* of, in, for
     <<111, 102>>, <<105, 110>>, <<102, 111, 114>>,
     \* on, with, at
     <<111, 110>>, <<119, 105, 116, 104>>, <<97, 116>>,
     \* by, from, as
     <<98, 121>>, <<102, 114, 111, 109>>, <<97, 115>>,
     \* into, through, during
     <<105, 110, 116, 111>>, <<116, 104, 114, 111, 117, 103, 104>>, <<100, 117, 114, 105, 110, 103>>,
     \* before, after, above
     <<98, 101, 102, 111, 114, 101>>, <<97, 102, 116, 101, 114>>, <<97, 98, 111, 118, 101>>,
     \* below, between, under
     <<98, 101, 108, 111, 119>>, <<98, 101, 116, 119, 101, 101, 110>>, <<117, 110, 100, 101, 114>>,
     \* again, further, then
     <<97, 103, 97, 105, 110>>, <<102, 117, 114, 116, 104, 101, 114>>, <<116, 104, 101, 110>>,
     \* once, here, there
     <<111, 110, 99, 101>>, <<104, 101, 114, 101>>, <<116, 104, 101, 114, 101>>,
     \* when, where, why
     <<119, 104, 101, 110>>, <<119, 104, 101, 114, 101>>, <<119, 104, 121>>,
     \* how, all, each
     <<104, 111, 119>>, <<97, 108, 108>>, <<101, 97, 99, 104>>,
     \* few, more, most
     <<102, 101, 119>>, <<109, 111, 114, 101>>, <<109, 111, 115, 116>>,
     \* other, some, such
     <<111, 116, 104, 101, 114>>, <<115, 111, 109, 101>>, <<115, 117, 99, 104>>,
     \* no, nor, not
     <<110, 111>>, <<110, 111, 114>>, <<110, 111, 116>>,
     \* only, own, same
     <<111, 110, 108, 121>>, <<111, 119, 110>>, <<115, 97, 109, 101>>,
     \* so, than, too
     <<115, 111>>, <<116, 104, 97, 110>>, <<116, 111, 111>>,
     \* very, just, i
     <<118, 101, 114, 121>>, <<106, 117, 115, 116>>, <<105>>,
     \* me, my, myself
     <<109, 101>>, <<109, 121>>, <<109, 121, 115, 101, 108, 102>>,
     \* we, our, you
     <<119, 101>>, <<111, 117, 114>>, <<121, 111, 117>>,
     \* your, he, him
     <<121, 111, 117, 114>>, <<104, 101>>, <<104, 105, 109>>,
     \* his, she, her
     <<104, 105, 115>>, <<115, 104, 101>>, <<104, 101, 114>>,
     \* it, its, they
     <<105, 116>>, <<105, 116, 115>>, <<116, 104, 101, 121>>,
     \* them, their, what
     <<116, 104, 101, 109>>, <<116, 104, 101, 105, 114>>, <<119, 104, 97, 116>>,
     \* which, who, this
     <<119, 104, 105, 99, 104>>, <<119, 104, 111>>, <<116, 104, 105, 115>>,
     \* that, these, those
     <<116, 104, 97, 116>>, <<116, 104, 101, 115, 101>>, <<116, 104, 111, 115, 101>>,
     \* am, but, if
     <<97, 109>>, <<98, 117, 116>>, <<105, 102>>,
     \* or, because, and
     <<111, 114>>, <<98, 101, 99, 97, 117, 115, 101>>, <<97, 110, 100>>,
     \* up, down, out
     <<117, 112>>, <<100, 111, 119, 110>>, <<111, 117, 116>>,
     \* off, over, now
     <<111, 102, 102>>, <<111, 118, 101, 114>>, <<110, 111, 119>>,
     \* get, got, like
     <<103, 101, 116>>, <<103, 111, 116>>, <<108, 105, 107, 101>>,
     \* going, go, come
     <<103, 111, 105, 110, 103>>, <<103, 111>>, <<99, 111, 109, 101>>,
     \* back, want, know
     <<98, 97, 99, 107>>, <<119, 97, 110, 116>>, <<107, 110, 111, 119>>,
     \* think, see, look
     <<116, 104, 105, 110, 107>>, <<115, 101, 101>>, <<108, 111, 111, 107>>,
     \* make, take, give
     <<109, 97, 107, 101>>, <<116, 97, 107, 101>>, <<103, 105, 118, 101>>,
     \* well, also, way
     <<119, 101, 108, 108>>, <<97, 108, 115, 111>>, <<119, 97, 121>>,
     \* even, new, any
     <<101, 118, 101, 110>>, <<110, 101, 119>>, <<97, 110, 121>>,
     \* say, said, one
     <<115, 97, 121>>, <<115, 97, 105, 100>>, <<111, 110, 101>>,
     \* two, first, last
     <<116, 119, 111>>, <<102, 105, 114, 115, 116>>, <<108, 97, 115, 116>>,
     \* long, great, little
     <<108, 111, 110, 103>>, <<103, 114, 101, 97, 116>>, <<108, 105, 116, 116, 108, 101>>,
     \* right, still, find
     <<114, 105, 103, 104, 116>>, <<115, 116, 105, 108, 108>>, <<102, 105, 110, 100>>,
     \* tell, ask, work
     <<116, 101, 108, 108>>, <<97, 115, 107>>, <<119, 111, 114, 107>>,
     \* seem, feel, try
     <<115, 101, 101, 109>>, <<102, 101, 101, 108>>, <<116, 114, 121>>,
     \* leave, call, keep
     <<108, 101, 97, 118, 101>>, <<99, 97, 108, 108>>, <<107, 101, 101, 112>>,
     \* let, begin, show
     <<108, 101, 116>>, <<98, 101, 103, 105, 110>>, <<115, 104, 111, 119>>,
     \* hear, play, run
     <<104, 101, 97, 114>>, <<112, 108, 97, 121>>, <<114, 117, 110>>,
     \* move, live, believe
     <<109, 111, 118, 101>>, <<108, 105, 118, 101>>, <<98, 101, 108, 105, 101, 118, 101>>,
     \* bring, happen, write
     <<98, 114, 105, 110, 103>>, <<104, 97, 112, 112, 101, 110>>, <<119, 114, 105, 116, 101>>,
     \* provide, sit, stand
     <<112, 114, 111, 118, 105, 100, 101>>, <<115, 105, 116>>, <<115, 116, 97, 110, 100>>,
     \* lose, pay, meet
     <<108, 111, 115, 101>>, <<112, 97, 121>>, <<109, 101, 101, 116>>,
     \* include, continue
     <<105, 110, 99, 108, 117, 100, 101>>, <<99, 111, 110, 116, 105, 110, 117, 101>>,
     \* set, learn, change
     <<115, 101, 116>>, <<108, 101, 97, 114, 110>>, <<99, 104, 97, 110, 103, 101>>,
     \* lead, understand
     <<108, 101, 97, 100>>, <<117, 110, 100, 101, 114, 115, 116, 97, 110, 100>>,
     \* watch, follow, stop
     <<119, 97, 116, 99, 104>>, <<102, 111, 108, 108, 111, 119>>, <<115, 116, 111, 112>>,
     \* create, speak, read
     <<99, 114, 101, 97, 116, 101>>, <<115, 112, 101, 97, 107>>, <<114, 101, 97, 100>>,
     \* allow, add, spend
     <<97, 108, 108, 111, 119>>, <<97, 100, 100>>, <<115, 112, 101, 110, 100>>,
     \* grow, open, walk
     <<103, 114, 111, 119>>, <<111, 112, 101, 110>>, <<119, 97, 108, 107>>,
     \* win, offer, remember
     <<119, 105, 110>>, <<111, 102, 102, 101, 114>>, <<114, 101, 109, 101, 109, 98, 101, 114>>,
     \* love, consider, appear
     <<108, 111, 118, 101>>, <<99, 111, 110, 115, 105, 100, 101, 114>>, <<97, 112, 112, 101, 97, 114>>,
     \* buy, wait, serve
     <<98, 117, 121>>, <<119, 97, 105, 116>>, <<115, 101, 114, 118, 101>>,
     \* die, send, expect
     <<100, 105, 101>>, <<115, 101, 110, 100>>, <<101, 120, 112, 101, 99, 116>>,
     \* build, stay, fall
     <<98, 117, 105, 108, 100>>, <<115, 116, 97, 121>>, <<102, 97, 108, 108>>,
     \* cut, reach, kill
     <<99, 117, 116>>, <<114, 101, 97, 99, 104>>, <<107, 105, 108, 108>>,
     \* remain, yeah, yes
     <<114, 101, 109, 97, 105, 110>>, <<121, 101, 97, 104>>, <<121, 101, 115>>,
     \* oh, ok, okay
     <<111, 104>>, <<111, 107>>, <<111, 107, 97, 121>>,
     \* um, uh, ah
     <<117, 109>>, <<117, 104>>, <<97, 104>>,
     \* haha, lol, gonna
     <<104, 97, 104, 97>>, <<108, 111, 108>>, <<103, 111, 110, 110, 97>>,
     \* wanna, gotta, kinda
     <<119, 97, 110, 110, 97>>, <<103, 111, 116, 116, 97>>, <<107, 105, 110, 100, 97>>,
     \* sorta, maybe, probably
     <<115, 111, 114, 116, 97>>, <<109, 97, 121, 98, 101>>, <<112, 114, 111, 98, 97, 98, 108, 121>>,
     \* really, actually
     <<114, 101, 97, 108, 108, 121>>, <<97, 99, 116, 117, 97, 108, 108, 121>>,
     \* basically, literally
     <<98, 97, 115, 105, 99, 97, 108, 108, 121>>, <<108, 105, 116, 101, 114, 97, 108, 108, 121>>,
     \* definitely, absolutely
     <<100, 101, 102, 105, 110, 105, 116, 101, 108, 121>>, <<97, 98, 115, 111, 108, 117, 116, 101, 108, 121>>,
     \* totally, completely
     <<116, 111, 116, 97, 108, 108, 121>>, <<99, 111, 109, 112, 108, 101, 116, 101, 108, 121>>,
     \* exactly, simply
     <<101, 120, 97, 99, 116, 108, 121>>, <<115, 105, 109, 112, 108, 121>>,
     \* highly, likely, certainly
     <<104, 105, 103, 104, 108, 121>>, <<108, 105, 107, 101, 108, 121>>, <<99, 101, 114, 116, 97, 105, 110, 108, 121>>,
     \* usually, always
     <<117, 115, 117, 97, 108, 108, 121>>, <<97, 108, 119, 97, 121, 115>>,
     \* never, sometimes
     <<110, 101, 118, 101, 114>>, <<115, 111, 109, 101, 116, 105, 109, 101, 115>>,
     \* often, already, honestly
     <<111, 102, 116, 101, 110>>, <<97, 108, 114, 101, 97, 100, 121>>, <<104, 111, 110, 101, 115, 116, 108, 121>>,
     \* tbh, idk, bc
     <<116, 98, 104>>, <<105, 100, 107>>, <<98, 99>>,
     \* tho, rn, omg
     <<116, 104, 111>>, <<114, 110>>, <<111, 109, 103>>,
     \* lmao, lmfao, smh
     <<108, 109, 97, 111>>, <<108, 109, 102, 97, 111>>, <<115, 109, 104>>,
     \* ngl, imo, imho
     <<110, 103, 108>>, <<105, 109, 111>>, <<105, 109, 104, 111>>,
     \* btw, fyi, jk
     <<98, 116, 119>>, <<102, 121, 105>>, <<106, 107>>,
     \* irl, asap, dont
     <<105, 114, 108>>, <<97, 115, 97, 112>>, <<100, 111, 110, 116>>,
     \* didnt, cant, couldnt
     <<100, 105, 100, 110, 116>>, <<99, 97, 110, 116>>, <<99, 111, 117, 108, 100, 110, 116>>,
     \* wont, wouldnt, shouldnt
     <<119, 111, 110, 116>>, <<119, 111, 117, 108, 100, 110, 116>>, <<115, 104, 111, 117, 108, 100, 110, 116>>,
     \* don, didn, doesn
     <<100, 111, 110>>, <<100, 105, 100, 110>>, <<100, 111, 101, 115, 110>>,
     \* hasn, hadn, isn
     <<104, 97, 115, 110>>, <<104, 97, 100, 110>>, <<105, 115, 110>>,
     \* aren, wasn, weren
     <<97, 114, 101, 110>>, <<119, 97, 115, 110>>, <<119, 101, 114, 101, 110>>,
     \* won, wouldn, couldn
     <<119, 111, 110>>, <<119, 111, 117, 108, 100, 110>>, <<99, 111, 117, 108, 100, 110>>,
     \* shouldn, ll, ve
     <<115, 104, 111, 117, 108, 100, 110>>, <<108, 108>>, <<118, 101>>,
     \* re, em, im
     <<114, 101>>, <<101, 109>>, <<105, 109>>,
     \* ive, youre, youve
     <<105, 118, 101>>, <<121, 111, 117, 114, 101>>, <<121, 111, 117, 118, 101>>,
     \* hes, shes, theyre
     <<104, 101, 115>>, <<115, 104, 101, 115>>, <<116, 104, 101, 121, 114, 101>>,
     \* theyve, thats, whats
     <<116, 104, 101, 121, 118, 101>>, <<116, 104, 97, 116, 115>>, <<119, 104, 97, 116, 115>>,
     \* hows, whos, wheres
     <<104, 111, 119, 115>>, <<119, 104, 111, 115>>, <<119, 104, 101, 114, 101, 115>>,
     \* itll, theyll, youll
     <<105, 116, 108, 108>>, <<116, 104, 101, 121, 108, 108>>, <<121, 111, 117, 108, 108>>,
     \* feels, sounds, looks
     <<102, 101, 101, 108, 115>>, <<115, 111, 117, 110, 100, 115>>, <<108, 111, 111, 107, 115>>,
     \* seems, means, goes
     <<115, 101, 101, 109, 115>>, <<109, 101, 97, 110, 115>>, <<103, 111, 101, 115>>,
     \* comes, gets, makes
     <<99, 111, 109, 101, 115>>, <<103, 101, 116, 115>>, <<109, 97, 107, 101, 115>>,
     \* takes, gives, puts
     <<116, 97, 107, 101, 115>>, <<103, 105, 118, 101, 115>>, <<112, 117, 116, 115>>,
     \* says, tells, asks
     <<115, 97, 121, 115>>, <<116, 101, 108, 108, 115>>, <<97, 115, 107, 115>>,
     \* thinks, knows, wants
     <<116, 104, 105, 110, 107, 115>>, <<107, 110, 111, 119, 115>>, <<119, 97, 110, 116, 115>>,
     \* needs, tries, starts
     <<110, 101, 101, 100, 115>>, <<116, 114, 105, 101, 115>>, <<115, 116, 97, 114, 116, 115>>,
     \* keeps, helps, works
     <<107, 101, 101, 112, 115>>, <<104, 101, 108, 112, 115>>, <<119, 111, 114, 107, 115>>,
     \* ppl, rly, prob
     <<112, 112, 108>>, <<114, 108, 121>>, <<112, 114, 111, 98>>,
     \* def, obv, sry
     <<100, 101, 102>>, <<111, 98, 118>>, <<115, 114, 121>>,
     \* thx, plz, pls
     <<116, 104, 120>>, <<112, 108, 122>>, <<112, 108, 115>>,
     \* ur, cuz, cus
     <<117, 114>>, <<99, 117, 122>>, <<99, 117, 115>>,
     \* cos, tht, wht
     <<99, 111, 115>>, <<116, 104, 116>>, <<119, 104, 116>>,
     \* abt, diff, oops
     <<97, 98, 116>>, <<100, 105, 102, 102>>, <<111, 111, 112, 115>>,
     \* yay, ooh, ugh
     <<121, 97, 121>>, <<111, 111, 104>>, <<117, 103, 104>>,
     \* hmm, hm, mhm
     <<104, 109, 109>>, <<104, 109>>, <<109, 104, 109>>,
     \* aww, wow, yikes
     <<97, 119, 119>>, <<119, 111, 119>>, <<121, 105, 107, 101, 115>>,
     \* damn, dang, gosh
     <<100, 97, 109, 110>>, <<100, 97, 110, 103>>, <<103, 111, 115, 104>>,
     \* shit, fuck, crap
     <<115, 104, 105, 116>>, <<102, 117, 99, 107>>, <<99, 114, 97, 112>>,
     \* hell, god, omfg
     <<104, 101, 108, 108>>, <<103, 111, 100>>, <<111, 109, 102, 103>>,
     \* wtf, lmk, hbu
     <<119, 116, 102>>, <<108, 109, 107>>, <<104, 98, 117>>,
     \* wbu, gtg, brb
     <<119, 98, 117>>, <<103, 116, 103>>, <<98, 114, 98>>,
     \* ttyl, ily, luv
     <<116, 116, 121, 108>>, <<105, 108, 121>>, <<108, 117, 118>>,
     \* bday, rip, sorry
     <<98, 100, 97, 121>>, <<114, 105, 112>>, <<115, 111, 114, 114, 121>>,
     \* thanks, thank, please
     <<116, 104, 97, 110, 107, 115>>, <<116, 104, 97, 110, 107>>, <<112, 108, 101, 97, 115, 101>>,
     \* hello, hey, hi
     <<104, 101, 108, 108, 111>>, <<104, 101, 121>>, <<104, 105>>,
     \* bye, sup, yo
     <<98, 121, 101>>, <<115, 117, 112>>, <<121, 111>>,
     \* dude, bro, sis
     <<100, 117, 100, 101>>, <<98, 114, 111>>, <<115, 105, 115>>,
     \* fam, babe, hun
     <<102, 97, 109>>, <<98, 97, 98, 101>>, <<104, 117, 110>>,
     \* cute, nice, cool
     <<99, 117, 116, 101>>, <<110, 105, 99, 101>>, <<99, 111, 111, 108>>,
     \* awesome, amazing
     <<97, 119, 101, 115, 111, 109, 101>>, <<97, 109, 97, 122, 105, 110, 103>>,
     \* sweet, sick, dope
     <<115, 119, 101, 101, 116>>, <<115, 105, 99, 107>>, <<100, 111, 112, 101>>,
     \* crazy, insane, wild
     <<99, 114, 97, 122, 121>>, <<105, 110, 115, 97, 110, 101>>, <<119, 105, 108, 100>>,
     \* weird, random, funny
     <<119, 101, 105, 114, 100>>, <<114, 97, 110, 100, 111, 109>>, <<102, 117, 110, 110, 121>>,
     \* hilarious, sad, mad
     <<104, 105, 108, 97, 114, 105, 111, 117, 115>>, <<115, 97, 100>>, <<109, 97, 100>>,
     \* happy, excited, nervous
     <<104, 97, 112, 112, 121>>, <<101, 120, 99, 105, 116, 101, 100>>, <<110, 101, 114, 118, 111, 117, 115>>,
     \* scared, tired, bored
     <<115, 99, 97, 114, 101, 100>>, <<116, 105, 114, 101, 100>>, <<98, 111, 114, 101, 100>>,
     \* busy, free, late
     <<98, 117, 115, 121>>, <<102, 114, 101, 101>>, <<108, 97, 116, 101>>,
     \* early, soon, quick
     <<101, 97, 114, 108, 121>>, <<115, 111, 111, 110>>, <<113, 117, 105, 99, 107>>,
     \* fast, slow, hard
     <<102, 97, 115, 116>>, <<115, 108, 111, 119>>, <<104, 97, 114, 100>>,
     \* easy, tough, rough
     <<101, 97, 115, 121>>, <<116, 111, 117, 103, 104>>, <<114, 111, 117, 103, 104>>,
     \* bad, worse, worst
     <<98, 97, 100>>, <<119, 111, 114, 115, 101>>, <<119, 111, 114, 115, 116>>,
     \* better, best, fun
     <<98, 101, 116, 116, 101, 114>>, <<98, 101, 115, 116>>, <<102, 117, 110>>,
     \* fair, true, false
     <<102, 97, 105, 114>>, <<116, 114, 117, 101>>, <<102, 97, 108, 115, 101>>,
     \* wrong, guess, bet
     <<119, 114, 111, 110, 103>>, <<103, 117, 101, 115, 115>>, <<98, 101, 116>>,
     \* hope, loved, liked
     <<104, 111, 112, 101>>, <<108, 111, 118, 101, 100>>, <<108, 105, 107, 101, 100>>,
     \* hated, forgot, remembered
     <<104, 97, 116, 101, 100>>, <<102, 111, 114, 103, 111, 116>>, <<114, 101, 109, 101, 109, 98, 101, 114, 101, 100>>,
     \* realized, noticed
     <<114, 101, 97, 108, 105, 122, 101, 100>>, <<110, 111, 116, 105, 99, 101, 100>>,
     \* thought, thinking
     <<116, 104, 111, 117, 103, 104, 116>>, <<116, 104, 105, 110, 107, 105, 110, 103>>,
     \* feeling, doing, coming
     <<102, 101, 101, 108, 105, 110, 103>>, <<100, 111, 105, 110, 103>>, <<99, 111, 109, 105, 110, 103>>,
     \* getting, trying
     <<103, 101, 116, 116, 105, 110, 103>>, <<116, 114, 121, 105, 110, 103>>,
     \* talking, saying
     <<116, 97, 108, 107, 105, 110, 103>>, <<115, 97, 121, 105, 110, 103>>,
     \* asking, telling
     <<97, 115, 107, 105, 110, 103>>, <<116, 101, 108, 108, 105, 110, 103>>,
     \* looking, seeing
     <<108, 111, 111, 107, 105, 110, 103>>, <<115, 101, 101, 105, 110, 103>>,
     \* waiting, checking
     <<119, 97, 105, 116, 105, 110, 103>>, <<99, 104, 101, 99, 107, 105, 110, 103>>,
     \* working, sleeping
     <<119, 111, 114, 107, 105, 110, 103>>, <<115, 108, 101, 101, 112, 105, 110, 103>>,
     \* eating, drinking
     <<101, 97, 116, 105, 110, 103>>, <<100, 114, 105, 110, 107, 105, 110, 103>>,
     \* half, whole, full
     <<104, 97, 108, 102>>, <<119, 104, 111, 108, 101>>, <<102, 117, 108, 108>>,
     \* empty, couple, several
     <<101, 109, 112, 116, 121>>, <<99, 111, 117, 112, 108, 101>>, <<115, 101, 118, 101, 114, 97, 108>>,
     \* finally, apparently
     <<102, 105, 110, 97, 108, 108, 121>>, <<97, 112, 112, 97, 114, 101, 110, 116, 108, 121>>,
     \* obviously, clearly
     <<111, 98, 118, 105, 111, 117, 115, 108, 121>>, <<99, 108, 101, 97, 114, 108, 121>>,
     \* essentially, worries
     <<101, 115, 115, 101, 110, 116, 105, 97, 108, 108, 121>>, <<119, 111, 114, 114, 105, 101, 115>>,
     \* worry, worried, matters
     <<119, 111, 114, 114, 121>>, <<119, 111, 114, 114, 105, 101, 100>>, <<109, 97, 116, 116, 101, 114, 115>>,
     \* matter, mattered
     <<109, 97, 116, 116, 101, 114>>, <<109, 97, 116, 116, 101, 114, 101, 100>>,
     \* today, tomorrow
     <<116, 111, 100, 97, 121>>, <<116, 111, 109, 111, 114, 114, 111, 119>>,
     \* yesterday, tonight
     <<121, 101, 115, 116, 101, 114, 100, 97, 121>>, <<116, 111, 110, 105, 103, 104, 116>>,
     \* morning, night, day
     <<109, 111, 114, 110, 105, 110, 103>>, <<110, 105, 103, 104, 116>>, <<100, 97, 121>>,
     \* week, month, year
     <<119, 101, 101, 107>>, <<109, 111, 110, 116, 104>>, <<121, 101, 97, 114>>,
     \* time, thing, things
     <<116, 105, 109, 101>>, <<116, 104, 105, 110, 103>>, <<116, 104, 105, 110, 103, 115>>,
     \* stuff, lot, bit
     <<115, 116, 117, 102, 102>>, <<108, 111, 116>>, <<98, 105, 116>>,
     \* much, many, people
     <<109, 117, 99, 104>>, <<109, 97, 110, 121>>, <<112, 101, 111, 112, 108, 101>>,
     \* person, man, woman
     <<112, 101, 114, 115, 111, 110>>, <<109, 97, 110>>, <<119, 111, 109, 97, 110>>,
     \* child, world, life
     <<99, 104, 105, 108, 100>>, <<119, 111, 114, 108, 100>>, <<108, 105, 102, 101>>,
     \* hand, part, place
     <<104, 97, 110, 100>>, <<112, 97, 114, 116>>, <<112, 108, 97, 99, 101>>,
     \* case, point, government
     <<99, 97, 115, 101>>, <<112, 111, 105, 110, 116>>, <<103, 111, 118, 101, 114, 110, 109, 101, 110, 116>>,
     \* company, number
     <<99, 111, 109, 112, 97, 110, 121>>, <<110, 117, 109, 98, 101, 114>>,
     \* group, problem, fact
     <<103, 114, 111, 117, 112>>, <<112, 114, 111, 98, 108, 101, 109>>, <<102, 97, 99, 116>>,
     \* something, anything
     <<115, 111, 109, 101, 116, 104, 105, 110, 103>>, <<97, 110, 121, 116, 104, 105, 110, 103>>,
     \* nothing, everything
     <<110, 111, 116, 104, 105, 110, 103>>, <<101, 118, 101, 114, 121, 116, 104, 105, 110, 103>>,
     \* someone, anyone
     <<115, 111, 109, 101, 111, 110, 101>>, <<97, 110, 121, 111, 110, 101>>,
     \* everyone, kind, sort
     <<101, 118, 101, 114, 121, 111, 110, 101>>, <<107, 105, 110, 100>>, <<115, 111, 114, 116>>,
     \* type, sense, idea
     <<116, 121, 112, 101>>, <<115, 101, 110, 115, 101>>, <<105, 100, 101, 97>>,
     \* reason, good, fine
     <<114, 101, 97, 115, 111, 110>>, <<103, 111, 111, 100>>, <<102, 105, 110, 101>>,
     \* sure, real
     <<115, 117, 114, 101>>, <<114, 101, 97, 108>>
    }

\* a row of the table sent messages are taken from, with its cleaned text
PhraseRow(id, year, f, clean_text) ==
    [message_id |-> id, year |-> year, is_from_me |-> f,
     clean_text |-> clean_text]

\* t in s, for two str
Contains(s, t) ==
    \E i \in 0..(Len(s) - Len(t)) : SubSeq(s, i + 1, i + Len(t)) = t

\* str.split(): the runs of characters other than blanks, in their order
Split(text) ==
    LET starts == {i \in 1..Len(text) :
                      text[i] # 32 /\ (i = 1 \/ text[i - 1] = 32)}
        start(k) == CHOOSE i \in starts :
                        Cardinality({j \in starts : j < i}) = k - 1
        end(i) == CHOOSE j \in i..Len(text) :
                      /\ \A x \in i..j : text[x] # 32
                      /\ (j = Len(text) \/ text[j + 1] = 32)
    IN  [k \in 1..Cardinality(starts) |->
            SubSeq(text, start(k), end(start(k)))]

\* ' '.join(words)
RECURSIVE Join(_)
Join(words) ==
    IF words = <<>> THEN <<>>
    ELSE IF Len(words) = 1 THEN words[1]
    ELSE words[1] \o <<32>> \o Join(Tail(words))

\* the tokens CountVectorizer finds in a cleaned text: its words of two or
\* more characters (token_pattern \b\w\w+\b)
Tokens(text) == SelectSeq(Split(text), LAMBDA w : Len(w) >= 2)

\* the n-grams of a text for ngram_range=(3, 5), one for every occurrence
Terms(text) ==
    LET tokens == Tokens(text)
        grams(n) == [i \in 1..(IF Len(tokens) >= n THEN Len(tokens) - n + 1
                               ELSE 0) |->
                        Join(SubSeq(tokens, i, i + n - 1))]
    IN  grams(3) \o grams(4) \o grams(5)

\* the occurrences of term in the n-grams terms
Occurrences(terms, term) ==
    Cardinality({i \in 1..Len(terms) : terms[i] = term})

\* the phrases of set S in str order, as get_feature_names_out lists them
PhrasesInOrder(S) ==
    [i \in 1..Cardinality(S) |->
        CHOOSE p \in S : Cardinality({x \in S : NameLess(x, p)}) = i - 1]

\* the answer of a vectorizer that raised
Failed == [failed |-> TRUE]

\* lines 163-167: CountVectorizer(ngram_range=(3, 5), min_df=3, max_df=0.5)
\* fitted on the texts of a year: the phrases found in at least 3 and at most
\* half of the texts, in str order, with the number of their occurrences; it
\* raises when no text holds a phrase, when half of the texts are fewer than
\* 3, and when no phrase is left
Vectorize(year_texts) ==
    LET terms == [i \in 1..Len(year_texts) |-> Terms(year_texts[i])]
        vocabulary == UNION {{terms[i][j] : j \in 1..Len(terms[i])} :
                                i \in 1..Len(terms)}
        doc_freq(p) == Cardinality({i \in 1..Len(terms) :
                                       Occurrences(terms[i], p) > 0})
        kept == {p \in vocabulary :
                    doc_freq(p) >= 3 /\ 2 * doc_freq(p) <= Len(year_texts)}
        features == PhrasesInOrder(kept)
    IN  IF vocabulary = {} \/ Len(year_texts) < 2 * 3 \/ kept = {}
        THEN Failed
        ELSE [failed |-> FALSE,
              phrase_counts |->
                 [k \in 1..Len(features) |->
                     [phrase |-> features[k],
                      count |-> Cardinality(UNION
                          {{<<i, j>> : j \in {x \in 1..Len(terms[i]) :
                                                 terms[i][x] = features[k]}} :
                           i \in 1..Len(terms)})]]]

\* line 170: phrase_counts.sort(key=lambda x: x[1], reverse=True), a stable
\* sort
SortByCount(pc) ==
    LET place(i) ==
            1 + Cardinality({j \in 1..Len(pc) :
                    \/ pc[j].count > pc[i].count
                    \/ pc[j].count = pc[i].count /\ j < i})
    IN  [p \in 1..Len(pc) |-> pc[CHOOSE i \in 1..Len(pc) : place(i) = p]]

\* never related to an accepted phrase
is_substring_of_existing_never(phrase, existing_phrases) == FALSE

\* lines 145-150
is_substring_of_existing(phrase, existing_phrases) ==
    \E k \in 1..Len(existing_phrases) :
        Contains(existing_phrases[k], phrase)
            \/ Contains(phrase, existing_phrases[k])

\* lines 178-182
TouchesBoringPhrase(phrase) ==
    \E boring \in BORING_PHRASES :
        Contains(phrase, boring) \/ Contains(boring, phrase)

\* one word outside the stoplist is enough
TooFewWords_one(words) ==
    Len(SelectSeq(words, LAMBDA w : w \notin BORING_WORDS)) < 1

\* lines 183-192
TooFewWords(words) ==
    Len(SelectSeq(words, LAMBDA w : w \notin BORING_WORDS)) < 2

\* lines 175-196: is_boring for a candidate, filtered_phrases being accepted
IsBoring(phrase, filtered_phrases) ==
    \/ TouchesBoringPhrase(phrase)
    \/ TooFewWords(Split(phrase))
    \/ is_substring_of_existing(phrase, filtered_phrases)

\* lines 174-203: the loop over phrase_counts from position i on, filtered
\* being the entries accepted so far
RECURSIVE FilterPhrases(_, _, _, _, _)
FilterPhrases(phrase_counts, i, filtered, year, n_phrases) ==
    IF i > Len(phrase_counts) THEN filtered
    ELSE CHOOSE r \in
        {IF Len(next) >= n_phrases THEN next
         ELSE FilterPhrases(phrase_counts, i + 1, next, year, n_phrases) :
         next \in
            {IF IsBoring(phrase_counts[i].phrase,
                         [k \in 1..Len(filtered) |-> filtered[k].phrase])
             THEN filtered
             ELSE Append(filtered,
                         [year |-> year,
                          phrase |-> phrase_counts[i].phrase,
                          count |-> phrase_counts[i].count])}} : TRUE

\* lines 159-207 for one year of the sent messages
PhrasesOfYear(sent, year, n_phrases) ==
    CHOOSE r \in
        {IF v.failed THEN <<>>
         ELSE FilterPhrases(SortByCount(v.phrase_counts), 1, <<>>, year,
                            n_phrases) :
         v \in {Vectorize(
                   [k \in 1..Len(SelectSeq(sent, LAMBDA r : r.year = year)) |->
                       SelectSeq(sent, LAMBDA r : r.year = year)[k].clean_text])}} :
        TRUE

\* lines 152-209
get_top_phrases_by_year(d, n_phrases) ==
    LET sent == SelectSeq(d, LAMBDA r : r.is_from_me = 1)
        years == NumbersInOrder({sent[i].year : i \in 1..Len(sent)})
    IN  Concat([k \in 1..Len(years) |->
                   PhrasesOfYear(sent, years[k], n_phrases)])

(***************************************************************************)
(* content.py: the topics of a year and of a contact.  The vectorizer and  *)
(* the factorization are library code: the table of these functions is     *)
(* what the library answers for a unit (a year, a contact), the features   *)
(* of each component in descending weight, or that it raised.              *)
(***************************************************************************)
\* str.endswith
EndsWith(word, suffix) ==
    Len(word) >= Len(suffix)
        /\ SubSeq(word, Len(word) - Len(suffix) + 1, Len(word)) = suffix

\* lines 242-252
normalize_word(w) ==
    LET word == Strip([i \in 1..Len(w) |-> Lower(w[i])])
    IN  IF EndsWith(word, <<105, 101, 115>>)
        THEN SubSeq(word, 1, Len(word) - 3) \o <<121>>
        ELSE IF EndsWith(word, <<101, 115>>) /\ Len(word) > 3
        THEN SubSeq(word, 1, Len(word) - 2)
        ELSE IF /\ EndsWith(word, <<115>>)
                /\ ~EndsWith(word, <<115, 115>>)
                /\ Len(word) > 2
        THEN SubSeq(word, 1, Len(word) - 1)
        ELSE word

\* lines 254-264
is_duplicate_word(word, existing_words) ==
    \E k \in 1..Len(existing_words) :
        \E norm_word \in {normalize_word(word)},
           norm_existing \in {normalize_word(existing_words[k])} :
            \/ norm_word = norm_existing
            \/ Contains(norm_existing, norm_word)
            \/ Contains(norm_word, norm_existing)

\* lines 301-311 and 369-376: the tests both functions make on a feature
SkippedFeature(word) ==
    \/ ~Contains(word, <<32>>) /\ word \in BORING_WORDS
    \/ /\ Contains(word, <<32>>)
       /\ \A k \in 1..Len(Split(word)) : Split(word)[k] \in BORING_WORDS
    \/ Len(SelectSeq(word, LAMBDA ch : ch # 32)) < 3

\* lines 299-317: the loop of get_topics_by_year over the features ranked,
\* from position i on
RECURSIVE YearTopWords(_, _, _)
YearTopWords(ranked, i, top_words) ==
    IF i > Len(ranked) THEN top_words
    ELSE IF SkippedFeature(ranked[i]) \/ is_duplicate_word(ranked[i], top_words)
    THEN YearTopWords(ranked, i + 1, top_words)
    ELSE IF Len(top_words) + 1 >= 5 THEN Append(top_words, ranked[i])
    ELSE YearTopWords(ranked, i + 1, Append(top_words, ranked[i]))

\* lines 367-379: the loop of get_topics_by_contact
RECURSIVE ContactTopWords(_, _, _, _)
ContactTopWords(ranked, i, top_words, n_top_words) ==
    IF i > Len(ranked) THEN top_words
    ELSE IF SkippedFeature(ranked[i])
    THEN ContactTopWords(ranked, i + 1, top_words, n_top_words)
    ELSE IF Len(top_words) + 1 >= n_top_words THEN Append(top_words, ranked[i])
    ELSE ContactTopWords(ranked, i + 1, Append(top_words, ranked[i]),
                         n_top_words)

\* topic.argsort()[-n_top_words*3:][::-1]: the first 3 * n_top_words of the
\* features in descending weight
TopRanked(ranked, n_top_words) ==
    SubSeq(ranked, 1, IF Len(ranked) < 3 * n_top_words THEN Len(ranked)
                      ELSE 3 * n_top_words)

\* lines 274-327 for one year, unit being what the library answers for the
\* year_texts of the year
TopicsOfYear(unit, n_top_words) ==
    IF unit.texts < 100 \/ unit.failed THEN <<>>
    ELSE LET topics ==
                 [t \in 1..Len(unit.components) |->
                     [year |-> unit.year,
                      topic_id |-> t - 1,
                      top_words |->
                          YearTopWords(TopRanked(unit.components[t],
                                                 n_top_words), 1, <<>>)]]
         IN  SelectSeq(topics, LAMBDA r : r.top_words # <<>>)

\* lines 266-329; units holds the years in ascending order
get_topics_by_year(units, n_top_words) ==
    Concat([k \in 1..Len(units) |-> TopicsOfYear(units[k], n_top_words)])

\* lines 342-388 for one contact
TopicsOfContact(unit, n_top_words) ==
    IF unit.texts < 50 \/ unit.failed THEN <<>>
    ELSE LET topics ==
                 [t \in 1..Len(unit.components) |->
                     [contact_name |-> unit.contact_name,
                      topic_id |-> t - 1,
                      top_words |->
                          ContactTopWords(TopRanked(unit.components[t],
                                                    n_top_words), 1, <<>>,
                                          n_top_words)]]
         IN  SelectSeq(topics, LAMBDA r : r.top_words # <<>>)

\* lines 331-390; units holds the contacts in the order of the argument
get_topics_by_contact(units, n_top_words) ==
    Concat([k \in 1..Len(units) |-> TopicsOfContact(units[k], n_top_words)])

(***************************************************************************)
(* content.py: get_unique_words_by_year.  The scores are the library's and *)
(* are not modelled; what is modelled is whether the vectorizer of line    *)
(* 218, fitted once on the joined texts of all years, raises.              *)
(***************************************************************************)
\* the words of the texts of this model that are in the English stop list of
\* the library: 'at', 'that'
StopWordsUsed == {<<97, 116>>, <<116, 104, 97, 116>>}

\* the features TfidfVectorizer(min_df=1, stop_words='english') finds in a
\* cleaned text: its words of two or more characters that are no stop words
Features(text) ==
    {Tokens(text)[k] :
        k \in {i \in 1..Len(Tokens(text)) : Tokens(text)[i] \notin StopWordsUsed}}

\* what a call answers that ended with an exception
Raised == [raised |-> TRUE]

\* lines 211-240: fit_transform (line 219) raises ValueError when no text
\* holds a feature, and no handler is around it
get_unique_words_by_year(d) ==
    LET sent == SelectSeq(d, LAMBDA r : r.is_from_me = 1)
        features == UNION {Features(sent[i].clean_text) : i \in 1..Len(sent)}
    IN  IF features = {} THEN Raised
        ELSE [raised |-> FALSE,
              years |-> NumbersInOrder({sent[i].year : i \in 1..Len(sent)}),
              features |-> PhrasesInOrder(features)]

(***************************************************************************)
(* llm/insights.py: is_noise and extract_substantive_messages.  A text is  *)
(* a sequence of character codes; None and '' are both <<>>.               *)
(***************************************************************************)
\* the object replacement character U+FFFC that stands for an attachment
ObjectChar == 65532

\* line 21: 'Loved "', 'Laughed at', 'Emphasized', 'Disliked', 'Liked "'
TAPBACKS ==
    {<<76, 111, 118, 101, 100, 32, 34>>,
     <<76, 97, 117, 103, 104, 101, 100, 32, 97, 116>>,
     <<69, 109, 112, 104, 97, 115, 105, 122, 101, 100>>,
     <<68, 105, 115, 108, 105, 107, 101, 100>>,
     <<76, 105, 107, 101, 100, 32, 34>>}

\* lines 14-25
is_noise(text) ==
    IF text = <<>> THEN TRUE
    ELSE \E t \in {Strip(text)} :
            \/ t = <<43>>
            \/ Len(t) = 2 /\ t[1] = 43 /\ t[2] \in 65..90
            \/ \E prefix \in TAPBACKS : StartsWith(t, prefix)
            \/ t # <<>> /\ \A i \in 1..Len(t) : t[i] = ObjectChar

\* msg['text'].replace(U+FFFC, '[img]'), line 86
RECURSIVE ReplaceObjects(_)
ReplaceObjects(text) ==
    IF text = <<>> THEN <<>>
    ELSE (IF Head(text) = ObjectChar THEN <<91, 105, 109, 103, 93>> ELSE <<Head(text)>>)
             \o ReplaceObjects(Tail(text))

\* sorted(..., key=lambda x: x['datetime']) and sort_values('datetime')
SortByDatetime(rows) ==
    SortByKeys(rows, [i \in 1..Len(rows) |-> <<Frac(rows[i].datetime, 1)>>])

\* lines 37-48: the messages of the top contacts that are no noise, contact
\* by contact in the order of top_contacts, each contact's by time
AllRows(d, top_contacts) ==
    Concat([k \in 1..Len(top_contacts) |->
        LET contact_df ==
                SortByDatetime(SelectSeq(d,
                    LAMBDA r : r.contact_name = top_contacts[k]))
            clean == SelectSeq(contact_df, LAMBDA r : ~is_noise(r.text))
        IN  [i \in 1..Len(clean) |->
                [contact |-> top_contacts[k],
                 is_from_me |-> clean[i].is_from_me,
                 text |-> clean[i].text,
                 datetime |-> clean[i].datetime,
                 length |-> Len(clean[i].text)]]])

\* the three kinds of line of build_output: lines 66, 82 and 91, lines 84-86
ConversationLine(contact) == [kind |-> "conversation", contact |-> contact]

\* a skip line that leaves one skipped message out of its count
SkippedLine_less(skip_count) ==
    [kind |-> "skipped", skip_count |-> skip_count - 1]

SkippedLine(skip_count) == [kind |-> "skipped", skip_count |-> skip_count]

\* strftime('%Y-%m-%d') gives the day of the time
MessageLine(msg, contact) ==
    [kind |-> "message",
     date_str |-> msg.datetime \div Day,
     sender |-> IF msg.is_from_me = 1 THEN <<89, 111, 117>> ELSE contact,
     text |-> ReplaceObjects(msg.text)]

\* lines 74-91: the loop over all messages of a contact from position i on,
\* and the skip line behind the loop
RECURSIVE ContactLines(_, _, _, _, _)
ContactLines(all_contact_msgs, i, skip_count, contact, min_length) ==
    IF i > Len(all_contact_msgs)
    THEN IF skip_count > 0 THEN <<SkippedLine(skip_count)>> ELSE <<>>
    ELSE IF all_contact_msgs[i].length >= min_length
    THEN (IF skip_count > 0 THEN <<SkippedLine(skip_count)>> ELSE <<>>)
             \o <<MessageLine(all_contact_msgs[i], contact)>>
             \o ContactLines(all_contact_msgs, i + 1, 0, contact, min_length)
    ELSE ContactLines(all_contact_msgs, i + 1, skip_count + 1, contact,
                      min_length)

\* lines 55-93; the value is the list lines, which line 93 joins with '\n'
build_output(all_rows, top_contacts, min_length) ==
    Concat([k \in 1..Len(top_contacts) |->
        LET all_contact_msgs ==
                SortByDatetime(SelectSeq(all_rows,
                    LAMBDA r : r.contact = top_contacts[k]))
            contact_msgs ==
                SelectSeq(all_contact_msgs, LAMBDA r : r.length >= min_length)
        IN  IF contact_msgs = <<>> THEN <<>>
            ELSE <<ConversationLine(top_contacts[k])>>
                     \o ContactLines(all_contact_msgs, 1, 0, top_contacts[k],
                                     min_length)])

\* how the number of tokens of a text compares with the band of five percent
\* around target_tokens (lines 106 and 108); the tokenizer is the library's,
\* and its answers are an input
Verdicts == {"more", "fewer", "within"}

\* the local variable mid before its first assignment
Unbound == -1

\* lines 102-111: the loop from its k-th test on
RECURSIVE BinarySearch(_, _, _, _, _)
BinarySearch(lo, hi, mid, verdicts, k) ==
    IF lo < hi
    THEN LET m == (lo + hi) \div 2
         IN  IF verdicts[k] = "more"
             THEN BinarySearch(m + 1, hi, m, verdicts, k + 1)
             ELSE IF verdicts[k] = "fewer"
             THEN BinarySearch(lo, m - 1, m, verdicts, k + 1)
             ELSE m
    ELSE mid

\* lines 28-113; line 113 reads mid, which is unbound when the loop of line
\* 102 never ran, and Python then raises UnboundLocalError
extract_substantive_messages(d, top_contacts, verdicts) ==
    LET all_rows == AllRows(d, top_contacts)
        lengths == {all_rows[i].length : i \in 1..Len(all_rows)}
        lo == CHOOSE x \in lengths : \A y \in lengths : x <= y
        hi == CHOOSE x \in lengths : \A y \in lengths : x >= y
        mid == BinarySearch(lo, hi, Unbound, verdicts, 1)
    IN  IF all_rows = <<>> THEN [raised |-> FALSE, mid |-> Unbound, lines |-> <<>>]
        ELSE IF mid = Unbound THEN [raised |-> TRUE, mid |-> Unbound, lines |-> <<>>]
        ELSE [raised |-> FALSE, mid |-> mid,
              lines |-> build_output(all_rows, top_contacts, mid)]

(***************************************************************************)
(* contacts.py: get_contacts_from_macos                                    *)
(***************************************************************************)
\* what the contact store does: the import or a call raises, it enumerates
\* nothing (access denied is reported without an exception), or it hands
\* every card to the handler
StoreOutcomes == {"raises", "enumerates nothing", "enumerates"}

\* lines 7-12
normalize_phone(phone) ==
    LET digits == SelectSeq(phone, LAMBDA ch : ch \in DigitChars)
    IN  IF Len(digits) = 11 /\ digits[1] = 49 THEN Tail(digits) ELSE digits

\* a dict with key set to value
SetItem(dict, key, value) ==
    [k \in DOMAIN dict \cup {key} |-> IF k = key THEN value ELSE dict[k]]

EmptyDict == <<>>

RECURSIVE SetItems(_, _, _)
SetItems(dict, keys, value) ==
    IF keys = <<>> THEN dict
    ELSE SetItems(SetItem(dict, Head(keys), value), Tail(keys), value)

\* lines 37-46: the keys one card adds, in the order they are set
CardKeys(card) ==
    Concat([i \in 1..Len(card.phoneNumbers) |->
               LET normalized == normalize_phone(card.phoneNumbers[i])
               IN  IF normalized # <<>>
                   THEN <<normalized, <<43, 49>> \o normalized>>
                   ELSE <<>>])
        \o [i \in 1..Len(card.emailAddresses) |->
               [j \in 1..Len(card.emailAddresses[i]) |->
                   Lower(card.emailAddresses[i][j])]]

\* lines 32-46, for the cards from position i on
RECURSIVE enumerate_handler(_, _, _)
enumerate_handler(contacts_map, cards, i) ==
    IF i > Len(cards) THEN contacts_map
    ELSE LET name == Strip(cards[i].givenName \o <<32>> \o cards[i].familyName)
         IN  enumerate_handler(
                 IF name = <<>> THEN contacts_map
                 ELSE SetItems(contacts_map, CardKeys(cards[i]), name),
                 cards, i + 1)

\* lines 14-57
get_contacts_from_macos(store, cards) ==
    IF store = "raises" THEN EmptyDict
    ELSE IF store = "enumerates nothing" THEN EmptyDict
    ELSE enumerate_handler(EmptyDict, cards, 1)

(***************************************************************************)
(* llm/insights.py: class LLMInsights and generate_llm_insights.  An       *)
(* Optional[str] is a record; the cache file is absent, no JSON, or a      *)
(* dict.                                                                   *)
(***************************************************************************)
None == [none |-> TRUE, text |-> <<>>]

Str(text) == [none |-> FALSE, text |-> text]

NoFile == [exists |-> FALSE, valid |-> FALSE, content |-> EmptyDict]

BadFile == [exists |-> TRUE, valid |-> FALSE, content |-> EmptyDict]

FileOf(cache) == [exists |-> TRUE, valid |-> TRUE, content |-> cache]

\* lines 204-212
_load_cache(cache_file) ==
    IF cache_file.exists /\ cache_file.valid THEN cache_file.content
    ELSE EmptyDict

\* lines 186-194; which is whether shutil.which finds the CLI.  The field
\* cache_file is the file on disk, started the number of subprocesses
\* started
LLMInsights(cache_file, which) ==
    [cli_available |-> which, cache |-> _load_cache(cache_file),
     cache_file |-> cache_file, started |-> 0]

\* the state before an LLMInsights object exists
NoInsights == LLMInsights(NoFile, FALSE)

\* what subprocess.run does (lines 238-243): it returns with a return code
\* and an output, the timeout of 120 seconds expires, or it raises
Completed(returncode, stdout) ==
    [kind |-> "completed", returncode |-> returncode, stdout |-> stdout]

TimeoutExpired == [kind |-> "timeout", returncode |-> 0, stdout |-> <<>>]

OSError == [kind |-> "error", returncode |-> 0, stdout |-> <<>>]

\* what _save_cache does (lines 214-218): it writes the file, raises before
\* it opened the file, or raises after it truncated the file
SaveOutcomes == {"saved", "unwritten", "truncated"}

_save_cache(self, save) ==
    IF save = "saved" THEN [self EXCEPT !.cache_file = FileOf(self.cache)]
    ELSE IF save = "truncated" THEN [self EXCEPT !.cache_file = BadFile]
    ELSE self

\* lines 246-249 and 254-258: the response is stored and saved; an exception
\* of _save_cache is caught at line 260
StoreResponse(self, cache_key, response, save) ==
    LET stored == [self EXCEPT !.cache = SetItem(self.cache, cache_key,
                                                 Str(response)),
                               !.started = self.started + 1]
    IN  [self |-> _save_cache(stored, save),
         value |-> IF save = "saved" THEN Str(response) ELSE None,
         invoked |-> TRUE]

\* a cache that is never consulted
Cached_never(self, cache_key) == FALSE

\* line 234
Cached(self, cache_key) == cache_key \in DOMAIN self.cache

\* lines 220-262; self is the object after the call, invoked whether
\* subprocess.run was called
_generate(self, prompt, cache_key, run, save) ==
    IF ~self.cli_available
    THEN [self |-> self, value |-> None, invoked |-> FALSE]
    ELSE IF Cached(self, cache_key)
    THEN [self |-> self, value |-> self.cache[cache_key], invoked |-> FALSE]
    ELSE IF run.kind # "completed"
    THEN [self |-> [self EXCEPT !.started = self.started + 1], value |-> None,
          invoked |-> TRUE]
    ELSE IF run.returncode = 0 \/ Strip(run.stdout) # <<>>
    THEN StoreResponse(self, cache_key, Strip(run.stdout), save)
    ELSE [self |-> [self EXCEPT !.started = self.started + 1], value |-> None,
          invoked |-> TRUE]

\* lines 286-290
clear_cache(self) == [self EXCEPT !.cache = EmptyDict, !.cache_file = NoFile]

\* a dict that keeps its None values
WithoutNone_kept(narratives) == narratives

\* line 354
WithoutNone(narratives) ==
    [k \in {x \in DOMAIN narratives : ~narratives[x].none} |-> narratives[k]]

\* lines 293-356.  runs and saves are what the two subprocesses and the two
\* saves do, writable whether the debug file of line 337 can be written; the
\* prompt is the pair of the question and the context
generate_llm_insights(d, top_contacts, cache_file, which, verdicts, writable, runs, saves) ==
    LET self == LLMInsights(cache_file, which)
        message_content ==
            extract_substantive_messages(d, top_contacts, verdicts)
        reflection ==
            _generate(self, <<"reflection", message_content.lines>>,
                      "wrapped_reflection", runs[1], saves[1])
        profile ==
            _generate(reflection.self, <<"profile", message_content.lines>>,
                      "psychological_profile", runs[2], saves[2])
        narratives ==
            SetItem(SetItem(EmptyDict, "wrapped_reflection", reflection.value),
                    "psychological_profile", profile.value)
    IN  IF ~self.cli_available
        THEN [raised |-> FALSE, value |-> EmptyDict, self |-> self,
              invoked |-> <<FALSE, FALSE>>]
        ELSE IF message_content.raised \/ ~writable
        THEN [raised |-> TRUE, value |-> EmptyDict, self |-> self,
              invoked |-> <<FALSE, FALSE>>]
        ELSE [raised |-> FALSE,
              value |-> WithoutNone(narratives),
              self |-> profile.self,
              invoked |-> <<reflection.invoked, profile.invoked>>]

(***************************************************************************)
(* Building the table (extract.py, main.py) and calling the analyses       *)
(***************************************************************************)
NoCall == [fn |-> "none"]

\* bound on the rows appended one by one
MaxRows == 3

AddMessage(c, t, f, limit) ==
    /\ out = NoCall
    /\ Len(df) < limit
    /\ df' = Append(df, Row(Len(df) + 1, c, t, f))
    /\ UNCHANGED <<now, out, llm>>

\* people.py line 52 binds the local name df to a sorted copy; the columns
\* of lines 54-58 are added to that copy and the caller's table is left alone
IdentifyConversationStarts_inplace ==
    /\ df' = identify_conversation_starts(df)
    /\ out' = [fn |-> "identify_conversation_starts",
               value |-> identify_conversation_starts(df)]
    /\ UNCHANGED <<now, llm>>

IdentifyConversationStarts ==
    /\ out' = [fn |-> "identify_conversation_starts",
               value |-> identify_conversation_starts(df)]
    /\ UNCHANGED <<df, now, llm>>

\* instants around the conversation gap: gaps of 2h, exactly 4h, 4h + 1s, ...
StartTimes ==
    {0, 2 * Hour, CONVERSATION_GAP_HOURS * Hour,
     CONVERSATION_GAP_HOURS * Hour + 1, 10 * Hour}

InitStarts ==
    /\ df = <<>>
    /\ now = 10 * Hour
    /\ out = NoCall
    /\ llm = NoInsights

NextStarts ==
    \/ \E c \in {Alex, Blair}, t \in StartTimes, f \in {0, 1} :
           AddMessage(c, t, f, MaxRows)
    \/ IdentifyConversationStarts

SpecStarts == InitStarts /\ [][NextStarts]_vars

GetConversationInitiatorStats ==
    /\ out' = [fn |-> "get_conversation_initiator_stats",
               value |-> get_conversation_initiator_stats(df)]
    /\ UNCHANGED <<df, now, llm>>

\* bound on the rows appended to a table that starts with a history
MaxExtra == 2

\* a history of 9 conversations with Alex (started alternately by the user
\* and by Alex) and 10 conversations started by Blair, 10 hours apart
InitiatorBase ==
    [i \in 1..19 |->
        IF i <= 9 THEN Row(i, Alex, (i - 1) * 10 * Hour, i % 2)
        ELSE Row(i, Blair, (i - 10) * 10 * Hour, 0)]

\* instants at and after the last message of Alex (hour 80)
InitiatorTimes == {80 * Hour, 82 * Hour, 90 * Hour, 100 * Hour}

InitInitiators ==
    /\ df = InitiatorBase
    /\ now = 100 * Hour
    /\ out = NoCall
    /\ llm = NoInsights

NextInitiators ==
    \/ \E c \in {Alex, Blair}, t \in InitiatorTimes, f \in {0, 1} :
           AddMessage(c, t, f, Len(InitiatorBase) + MaxExtra)
    \/ GetConversationInitiatorStats

SpecInitiators == InitInitiators /\ [][NextInitiators]_vars

CalculateResponseTimes ==
    /\ out' = [fn |-> "calculate_response_times",
               value |-> calculate_response_times(df)]
    /\ UNCHANGED <<df, now, llm>>

GetResponseTimeStats(top_contacts) ==
    /\ out' = [fn |-> "get_response_time_stats",
               top_contacts |-> top_contacts,
               value |-> get_response_time_stats(df, top_contacts)]
    /\ UNCHANGED <<df, now, llm>>

\* ten messages exchanged with Casey, sent alternately by the user and by
\* Casey, the gaps growing from 100 to 900 seconds
ResponseBase ==
    [i \in 1..10 |-> Row(i, Casey, 50 * i * (i - 1), i % 2)]

\* instants at and after the last message of the history: gaps of 0 and 60
\* seconds, of exactly 1 day and 7 days, and of 7 days and 60 seconds
ResponseTimes ==
    {4500, 4560, 4500 + Day, 4500 + WEEK_DAYS * Day,
     4560 + WEEK_DAYS * Day}

InitResponses ==
    /\ df = ResponseBase
    /\ now = 4560 + WEEK_DAYS * Day
    /\ out = NoCall
    /\ llm = NoInsights

NextResponses ==
    \/ \E c \in {Alex, Casey}, t \in ResponseTimes, f \in {0, 1} :
           AddMessage(c, t, f, Len(ResponseBase) + MaxExtra)
    \/ CalculateResponseTimes
    \/ \E top \in {{}, {Alex}, {Casey}} : GetResponseTimeStats(top)

SpecResponses == InitResponses /\ [][NextResponses]_vars

GetTopContactsByYear(n) ==
    /\ out' = [fn |-> "get_top_contacts_by_year", n |-> n,
               value |-> get_top_contacts_by_year(df, n)]
    /\ UNCHANGED <<df, now, llm>>

\* a first year with 10 messages of Alex, 9 of Blair and 5 of Casey
RankBase ==
    [i \in 1..24 |->
        Row(i, IF i <= 10 THEN Alex ELSE IF i <= 19 THEN Blair ELSE Casey,
            i * Hour, i % 2)]

\* an instant of the first year and one of the second
RankTimes == {30 * Hour, YEAR_DAYS * Day + Hour}

\* the values of n that main.py and people.py pass, and two small ones
RankLimits == {1, 2, 10, 100}

InitRanking ==
    /\ df = RankBase
    /\ now = YEAR_DAYS * Day + Hour
    /\ out = NoCall
    /\ llm = NoInsights

NextRanking ==
    \/ \E c \in {Alex, Blair, Casey}, t \in RankTimes, f \in {0, 1} :
           AddMessage(c, t, f, Len(RankBase) + MaxExtra)
    \/ \E n \in RankLimits : GetTopContactsByYear(n)

SpecRanking == InitRanking /\ [][NextRanking]_vars

GetLongestStreaks ==
    /\ out' = [fn |-> "get_longest_streaks",
               value |-> get_longest_streaks(df, TOP_STREAKS)]
    /\ UNCHANGED <<df, now, llm>>

\* two instants of the first day, the two next days, and the fifth day
StreakTimes == {0, Hour, Day, 2 * Day, 4 * Day}

InitStreaks ==
    /\ df = <<>>
    /\ now = 4 * Day
    /\ out = NoCall
    /\ llm = NoInsights

NextStreaks ==
    \/ \E c \in {Alex, Blair}, t \in StreakTimes, f \in {0, 1} :
           AddMessage(c, t, f, MaxRows)
    \/ GetLongestStreaks

SpecStreaks == InitStreaks /\ [][NextStreaks]_vars

DetectFadingFriendships ==
    /\ out' = [fn |-> "detect_fading_friendships",
               value |-> detect_fading_friendships(df, now, 100, 365)]
    /\ UNCHANGED <<df, now, llm>>

DetectNewConnections ==
    /\ out' = [fn |-> "detect_new_connections",
               value |-> detect_new_connections(df, now, 4)]
    /\ UNCHANGED <<df, now, llm>>

\* the instant of the extraction: day 1000 of the calendar, 28 September 2019
Now0 == 1000 * Day

\* bound on the half days that pass between the extraction and an analysis
MaxHalfDays == 2

\* the clock advances by half a day
Tick ==
    /\ out = NoCall
    /\ now < Now0 + MaxHalfDays * 12 * Hour
    /\ now' = now + 12 * Hour
    /\ UNCHANGED <<df, out, llm>>

\* count messages of a contact, one a minute, the newest of them age days
\* before Now0
Segment(contact, count, age) ==
    [contact |-> contact, count |-> count, age |-> age]

\* the rows of a sequence of segments, the first of them with number id
RECURSIVE HistoryRows(_, _)
HistoryRows(segments, id) ==
    IF segments = <<>> THEN <<>>
    ELSE [k \in 1..Head(segments).count |->
             Row(id + k - 1, Head(segments).contact,
                 Now0 - Head(segments).age * Day
                      - (Head(segments).count - k) * 60,
                 k % 2)]
         \o HistoryRows(Tail(segments), id + Head(segments).count)

\* histories in chronological order, as chat.db is read (ORDER BY m.date)
\* Alex faded against the prior year; Blair is back after 300 days; three
\* names that are not persons
HistoryFaded ==
    <<Segment(Alex, 60, 500), Segment(Alex, 40, 400), Segment(Phone, 3, 310),
      Segment(Urn, 3, 305), Segment(Code, 3, 302), Segment(Blair, 3, 300),
      Segment(Alex, 5, 10), Segment(Phone, 4, 7), Segment(Urn, 4, 6),
      Segment(Blair, 4, 5), Segment(Code, 4, 4)>>

\* Alex one message short of 30% of the rate of the prior six months, Blair
\* one message short of 5 times that rate
HistoryNearRatio ==
    <<Segment(Alex, 50, 200), Segment(Alex, 50, 150), Segment(Blair, 6, 100),
      Segment(Alex, 14, 10), Segment(Blair, 4, 5)>>

\* Alex with 20 messages in the prior year and 100 in the prior six months,
\* Casey with none in the prior year and 30 in the prior six months; Blair
\* grown tenfold and Dana back
HistoryWindows ==
    <<Segment(Casey, 70, 760), Segment(Alex, 20, 400), Segment(Alex, 50, 200),
      Segment(Casey, 15, 190), Segment(Alex, 50, 150), Segment(Casey, 15, 140),
      Segment(Blair, 6, 100), Segment(Dana, 3, 95), Segment(Blair, 10, 5),
      Segment(Dana, 4, 3)>>

\* Alex with 15 messages that are about to leave the prior year, Blair known
\* for 59 days
HistoryEdges ==
    <<Segment(Alex, 55, 760), Segment(Alex, 15, 729), Segment(Alex, 15, 200),
      Segment(Alex, 15, 150), Segment(Blair, 2, 59), Segment(Blair, 4, 5)>>

\* Alex with 99 messages, Blair with 3 recent ones
HistoryShort ==
    <<Segment(Alex, 59, 400), Segment(Alex, 30, 350), Segment(Alex, 10, 300),
      Segment(Blair, 1, 100), Segment(Blair, 3, 5)>>

\* Alex with 100 messages in two calendar months, Blair with a prior rate
\* just below 0.2
HistoryBurst ==
    <<Segment(Alex, 50, 400), Segment(Alex, 50, 390), Segment(Blair, 5, 100),
      Segment(Blair, 4, 5)>>

\* Alex with 28 messages in the last two years, Blair grown less than 5 times
HistoryOld ==
    <<Segment(Alex, 72, 800), Segment(Alex, 15, 200), Segment(Alex, 13, 150),
      Segment(Blair, 8, 100), Segment(Blair, 5, 5)>>

\* Alex silent for 365 days, Blair for 30 days
HistorySilent ==
    <<Segment(Alex, 50, 600), Segment(Alex, 30, 500), Segment(Alex, 20, 365),
      Segment(Blair, 4, 100), Segment(Blair, 4, 30)>>

\* Alex with 10 messages in each prior window, Blair two messages short of 5
\* times the prior rate
HistorySparse ==
    <<Segment(Alex, 90, 800), Segment(Alex, 10, 400), Segment(Alex, 10, 200),
      Segment(Blair, 12, 100), Segment(Alex, 10, 50), Segment(Blair, 8, 5)>>

Histories ==
    {HistoryFaded, HistoryNearRatio, HistoryWindows, HistoryEdges,
     HistoryShort, HistoryBurst, HistoryOld, HistorySilent, HistorySparse}

\* the number of rows of the history in the table
HistoryLen == Cardinality({i \in 1..Len(df) : df[i].datetime < Now0})

InitHealth ==
    /\ df \in {HistoryRows(h, 1) : h \in Histories}
    /\ now = Now0
    /\ out = NoCall
    /\ llm = NoInsights

NextHealth ==
    \/ \E c \in {Alex, Blair} : AddMessage(c, now, 0, HistoryLen + MaxExtra)
    \/ Tick
    \/ DetectFadingFriendships
    \/ DetectNewConnections

SpecHealth == InitHealth /\ [][NextHealth]_vars

CalculateLopsidedness ==
    /\ out' = [fn |-> "calculate_lopsidedness",
               value |-> calculate_lopsidedness(df)]
    /\ UNCHANGED <<df, now, llm>>

GetTopContactsAlltime ==
    /\ out' = [fn |-> "get_top_contacts_alltime",
               value |-> get_top_contacts_alltime(df, TOP_CONTACTS_COUNT)]
    /\ UNCHANGED <<df, now, llm>>

GetYearlyVolume ==
    /\ out' = [fn |-> "get_yearly_volume", value |-> get_yearly_volume(df)]
    /\ UNCHANGED <<df, now, llm>>

\* a first year with 10 messages exchanged with Alex, 9 with Blair, 10 sent
\* to Casey and 10 received from Dana
PeopleBase ==
    [i \in 1..39 |->
        Row(i,
            IF i <= 10 THEN Alex ELSE IF i <= 19 THEN Blair
            ELSE IF i <= 29 THEN Casey ELSE Dana,
            i * Hour,
            IF i <= 19 THEN i % 2 ELSE IF i <= 29 THEN 1 ELSE 0)]

InitPeople ==
    /\ df = PeopleBase
    /\ now = YEAR_DAYS * Day + Hour
    /\ out = NoCall
    /\ llm = NoInsights

NextPeople ==
    \/ \E c \in {Blair, Casey}, t \in RankTimes, f \in {0, 1} :
           AddMessage(c, t, f, Len(PeopleBase) + MaxExtra)
    \/ CalculateLopsidedness
    \/ GetTopContactsAlltime
    \/ \E n \in {10} : GetTopContactsByYear(n)
    \/ GetYearlyVolume

SpecPeople == InitPeople /\ [][NextPeople]_vars

\* main.py lines 81-124: named is the table that enters the filter of the
\* one-sided contacts, and the table that leaves it replaces df
FilterContacts ==
    /\ out = NoCall
    /\ \E named \in {NamedRows(df)} :
       \E kept \in {TwoWayRows(NamedRows(df))} :
           /\ df' = kept
           /\ out' = [fn |-> "filter_contacts", named |-> named,
                      value |-> kept]
    /\ UNCHANGED <<now, llm>>

\* 1 message sent to Alex and 18 received, 20 sent to Blair and 1 received,
\* 3 sent to Casey, 2 exchanged with a phone number and with a short code
FilterBase ==
    [i \in 1..47 |->
        Row(i,
            IF i <= 19 THEN Alex ELSE IF i <= 40 THEN Blair
            ELSE IF i <= 43 THEN Casey ELSE IF i <= 45 THEN Phone ELSE Code,
            i * Hour,
            IF i <= 19 THEN (IF i = 1 THEN 1 ELSE 0)
            ELSE IF i <= 40 THEN (IF i = 20 THEN 0 ELSE 1)
            ELSE IF i <= 43 THEN 1 ELSE i % 2)]

FilterTimes == {50 * Hour, 60 * Hour}

InitFilter ==
    /\ df = FilterBase
    /\ now = 60 * Hour
    /\ out = NoCall
    /\ llm = NoInsights

NextFilter ==
    \/ \E c \in {Alex, Blair, Casey}, t \in FilterTimes, f \in {0, 1} :
           AddMessage(c, t, f, Len(FilterBase) + MaxExtra)
    \/ FilterContacts

SpecFilter == InitFilter /\ [][NextFilter]_vars

\* the name of the k-th contact of a crowded table: "Az", "Bz", ...
Crowd(k) == <<64 + k, 122>>

\* the segments of contacts lo..hi, count(k) messages each, the newest of
\* them a day apart and that of contact hi age days before Now0
RECURSIVE CrowdSegments(_, _, _, _)
CrowdSegments(lo, hi, count, age) ==
    IF lo > hi THEN <<>>
    ELSE <<Segment(Crowd(lo), count[lo], age + (hi - lo))>>
         \o CrowdSegments(lo + 1, hi, count, age)

\* more than ten fading and more than ten emerging contacts.  Contacts 1-9
\* wrote 100 messages in the six months before the trailing 90 days and none
\* since; contact 10 has 26 messages in those six months and contact 11 has
\* 53 in the prior year, each with 1 message in the trailing 90 days;
\* contacts 12-22 wrote once 90 to 100 days ago and 4 to 6 times in the
\* trailing 30 days
HistoryCrowd ==
    <<Segment(Crowd(10), 1, 800), Segment(Crowd(11), 53, 400),
      Segment(Crowd(10), 72, 301), Segment(Crowd(11), 46, 300)>>
    \o CrowdSegments(1, 9, [k \in 1..9 |-> 40], 201)
    \o <<Segment(Crowd(10), 13, 200)>>
    \o CrowdSegments(1, 9, [k \in 1..9 |-> 30], 151)
    \o <<Segment(Crowd(10), 13, 150)>>
    \o CrowdSegments(1, 9, [k \in 1..9 |-> 30], 101)
    \o CrowdSegments(12, 22, [k \in 12..22 |-> 1], 90)
    \o <<Segment(Crowd(11), 1, 13), Segment(Crowd(10), 1, 12)>>
    \o CrowdSegments(12, 22, [k \in 12..22 |-> 4 + (k % 3)], 1)

InitCrowd ==
    /\ df = HistoryRows(HistoryCrowd, 1)
    /\ now = Now0
    /\ out = NoCall
    /\ llm = NoInsights

NextCrowd ==
    \/ \E c \in {Crowd(10), Crowd(11)} :
           AddMessage(c, now, 0, HistoryLen + MaxExtra)
    \/ Tick
    \/ DetectFadingFriendships
    \/ DetectNewConnections

SpecCrowd == InitCrowd /\ [][NextCrowd]_vars

\* the clock advances by half a day between two runs of the analyses on the
\* same table
Elapse ==
    /\ now < Now0 + MaxHalfDays * 12 * Hour
    /\ now' = now + 12 * Hour
    /\ UNCHANGED <<df, out, llm>>

InitRerun ==
    /\ df \in {HistoryRows(h, 1) :
                  h \in {HistoryFaded, HistoryEdges, HistorySilent}}
    /\ now = Now0
    /\ out = NoCall
    /\ llm = NoInsights

NextRerun ==
    \/ \E c \in {Alex, Blair} : AddMessage(c, now, 0, HistoryLen + MaxExtra)
    \/ Elapse
    \/ DetectFadingFriendships
    \/ DetectNewConnections

SpecRerun == InitRerun /\ [][NextRerun]_vars

\* the three analyses that look at neighbouring messages, on a table in
\* which rows of a contact may carry the same timestamp
InitOrder ==
    /\ df = InitiatorBase
    /\ now = 100 * Hour
    /\ out = NoCall
    /\ llm = NoInsights

NextOrder ==
    \/ \E c \in {Alex, Blair}, t \in InitiatorTimes, f \in {0, 1} :
           AddMessage(c, t, f, Len(InitiatorBase) + MaxExtra)
    \/ IdentifyConversationStarts
    \/ GetConversationInitiatorStats
    \/ CalculateResponseTimes

SpecOrder == InitOrder /\ [][NextOrder]_vars

\* the analyses of main.py steps 3, 4 and 7 on one table, in any order and
\* any number of times
PipelineTimes == {0, 5 * Hour}

\* Blair is back after 95 days, Alex wrote 50 days ago
HistoryBack ==
    <<Segment(Blair, 1, 100), Segment(Alex, 2, 50), Segment(Blair, 4, 5)>>

InitPipeline ==
    /\ df \in {<<>>, HistoryRows(HistoryBack, 1)}
    /\ now = Now0
    /\ out = NoCall
    /\ llm = NoInsights

NextPipeline ==
    \/ \E c \in {Alex, Blair}, t \in PipelineTimes, f \in {0, 1} :
           AddMessage(c, t, f, MaxExtra)
    \/ GetTopContactsAlltime
    \/ \E n \in {10} : GetTopContactsByYear(n)
    \/ CalculateLopsidedness
    \/ IdentifyConversationStarts
    \/ GetConversationInitiatorStats
    \/ CalculateResponseTimes
    \/ \E top \in {{}, {Alex}} : GetResponseTimeStats(top)
    \/ GetYearlyVolume
    \/ GetLongestStreaks
    \/ DetectFadingFriendships
    \/ DetectNewConnections

SpecPipeline == InitPipeline /\ [][NextPipeline]_vars

\* main.py step 9 on a table with texts
ContentInsights ==
    /\ out' = [fn |-> "content_insights", value |-> FocusedOnThem(df)]
    /\ UNCHANGED <<df, now, llm>>

AddText(c, f, text, limit) ==
    /\ out = NoCall
    /\ Len(df) < limit
    /\ df' = Append(df, TextRow(Len(df) + 1, c, Len(df) * 60, f, text))
    /\ UNCHANGED <<now, out, llm>>

\* 'ok', 'I'm on my way', 'see you', 'How are you'
TextOk == <<111, 107>>

TextOnMyWay == <<73, 39, 109, 32, 111, 110, 32, 109, 121, 32, 119, 97, 121>>

TextSeeYou == <<115, 101, 101, 32, 121, 111, 117>>

TextHowAreYou == <<72, 111, 119, 32, 97, 114, 101, 32, 121, 111, 117>>

\* 500 messages with Alex, one in twenty of them sent: 'ok' and 'see you'
\* in turn
InsightBase ==
    [i \in 1..500 |->
        TextRow(i, Alex, (i - 1) * 60, IF i % 20 = 0 THEN 1 ELSE 0,
                IF i % 20 # 0 THEN TextHowAreYou
                ELSE IF i % 40 = 0 THEN TextOk ELSE TextSeeYou)]

InitInsights ==
    /\ df = InsightBase
    /\ now = Now0
    /\ out = NoCall
    /\ llm = NoInsights

NextInsights ==
    \/ \E c \in {Alex, Blair}, f \in {0, 1},
          text \in {TextOk, TextOnMyWay, TextSeeYou} :
           AddText(c, f, text, Len(InsightBase) + MaxExtra)
    \/ ContentInsights

SpecInsights == InitInsights /\ [][NextInsights]_vars

\* a short code, a name of digits only
Number == <<52, 50>>

\* the short code 42 and the phone number +15 with the history of a faded
\* friend, and back in the last days; Alex faded as they did
HistoryNumbers ==
    <<Segment(Number, 60, 500), Segment(Phone, 60, 499),
      Segment(Alex, 60, 498), Segment(Number, 40, 400),
      Segment(Phone, 40, 399), Segment(Alex, 40, 398),
      Segment(Number, 5, 10), Segment(Phone, 5, 9), Segment(Alex, 5, 8)>>

InitNumbers ==
    /\ df = HistoryRows(HistoryNumbers, 1)
    /\ now = Now0
    /\ out = NoCall
    /\ llm = NoInsights

NextNumbers ==
    \/ \E c \in {Number, Phone} : AddMessage(c, now, 0, HistoryLen + MaxExtra)
    \/ Tick
    \/ DetectFadingFriendships
    \/ DetectNewConnections

SpecNumbers == InitNumbers /\ [][NextNumbers]_vars

\* cleaned texts: 'coffee shop dinner', 'coffee shop dinner sunset', 'book dinner sunset', 'look at that sunset', 'ok'
TextCoffee == <<99, 111, 102, 102, 101, 101, 32, 115, 104, 111, 112, 32, 100, 105, 110, 110, 101, 114>>

TextCoffeeSunset == <<99, 111, 102, 102, 101, 101, 32, 115, 104, 111, 112, 32, 100, 105, 110, 110, 101, 114, 32, 115, 117, 110, 115, 101, 116>>

TextBook == <<98, 111, 111, 107, 32, 100, 105, 110, 110, 101, 114, 32, 115, 117, 110, 115, 101, 116>>

TextLook == <<108, 111, 111, 107, 32, 97, 116, 32, 116, 104, 97, 116, 32, 115, 117, 110, 115, 101, 116>>

TextFiller == <<111, 107>>

\* count sent messages of a year with one text
Repeated(year, count, text) == [k \in 1..count |-> [year |-> year, text |-> text]]

\* 2020 with thirteen sent messages, 2021 with eight and 2022 with two; the
\* twelfth message of the table is a received one
PhraseBase ==
    LET sent == Repeated(2020, 3, TextCoffeeSunset) \o Repeated(2020, 2, TextCoffee)
                \o Repeated(2020, 3, TextBook) \o Repeated(2020, 4, TextFiller)
                \o Repeated(2020, 2, TextLook)
                \o Repeated(2021, 3, TextCoffee) \o Repeated(2021, 5, TextFiller)
                \o Repeated(2022, 2, TextCoffee)
    IN  [i \in 1..Len(sent) |->
            PhraseRow(i, sent[i].year, IF i = 12 THEN 0 ELSE 1, sent[i].text)]

AddPhrase(year, f, text, limit) ==
    /\ out = NoCall
    /\ Len(df) < limit
    /\ df' = Append(df, PhraseRow(Len(df) + 1, year, f, text))
    /\ UNCHANGED <<now, out, llm>>

GetTopPhrasesByYear(n_phrases) ==
    /\ out' = [fn |-> "get_top_phrases_by_year", n_phrases |-> n_phrases,
               value |-> get_top_phrases_by_year(df, n_phrases)]
    /\ UNCHANGED <<df, now, llm>>

InitPhrases ==
    /\ df = PhraseBase
    /\ now = Now0
    /\ out = NoCall
    /\ llm = NoInsights

NextPhrases ==
    \/ \E year \in {2020, 2021, 2022},
          text \in {TextCoffeeSunset, TextLook, TextFiller} :
           AddPhrase(year, 1, text, Len(PhraseBase) + MaxExtra)
    \/ \E n_phrases \in {1, 2, 20} : GetTopPhrasesByYear(n_phrases)

SpecPhrases == InitPhrases /\ [][NextPhrases]_vars

\* the features of four components in descending weight
\* friends, yeah, friend, yeah lol, tv, dinner, movie, party, parties, coffee, sunset, shop
RankedFriends ==
    <<<<102, 114, 105, 101, 110, 100, 115>>,
      <<121, 101, 97, 104>>,
      <<102, 114, 105, 101, 110, 100>>,
      <<121, 101, 97, 104, 32, 108, 111, 108>>,
      <<116, 118>>,
      <<100, 105, 110, 110, 101, 114>>,
      <<109, 111, 118, 105, 101>>,
      <<112, 97, 114, 116, 121>>,
      <<112, 97, 114, 116, 105, 101, 115>>,
      <<99, 111, 102, 102, 101, 101>>,
      <<115, 117, 110, 115, 101, 116>>,
      <<115, 104, 111, 112>>>>

\* boxes, box, companies, company, class, gym class
RankedBoxes ==
    <<<<98, 111, 120, 101, 115>>,
      <<98, 111, 120>>,
      <<99, 111, 109, 112, 97, 110, 105, 101, 115>>,
      <<99, 111, 109, 112, 97, 110, 121>>,
      <<99, 108, 97, 115, 115>>,
      <<103, 121, 109, 32, 99, 108, 97, 115, 115>>>>

\* yeah, lol, yeah lol, tv
RankedBoring ==
    <<<<121, 101, 97, 104>>,
      <<108, 111, 108>>,
      <<121, 101, 97, 104, 32, 108, 111, 108>>,
      <<116, 118>>>>

\* coffee, sunset, dinner
RankedPlain ==
    <<<<99, 111, 102, 102, 101, 101>>,
      <<115, 117, 110, 115, 101, 116>>,
      <<100, 105, 110, 110, 101, 114>>>>

\* what the library answers for the texts of a unit: texts is their number,
\* components the features of nmf.components_ in descending weight
Factorized(texts, failed, components) ==
    [texts |-> texts, failed |-> failed, components |-> components]

Factorizations ==
    {Factorized(120, FALSE, <<RankedFriends>>),
     Factorized(120, FALSE, <<RankedBoxes, RankedBoring>>),
     Factorized(60, FALSE, <<RankedFriends>>),
     Factorized(40, FALSE, <<RankedPlain>>),
     Factorized(120, TRUE, <<>>),
     Factorized(120, FALSE, <<RankedPlain>>)}

\* one more unit: get_topics_by_year reads it as its next year,
\* get_topics_by_contact as its next contact
AddUnit(u, limit) ==
    /\ out = NoCall
    /\ Len(df) < limit
    /\ df' = Append(df, [year |-> 2019 + Len(df) + 1,
                         contact_name |-> Crowd(Len(df) + 1),
                         texts |-> u.texts,
                         failed |-> u.failed,
                         components |-> u.components])
    /\ UNCHANGED <<now, out, llm>>

GetTopicsByYear ==
    /\ out' = [fn |-> "get_topics_by_year",
               value |-> get_topics_by_year(df, 8)]
    /\ UNCHANGED <<df, now, llm>>

GetTopicsByContact ==
    /\ out' = [fn |-> "get_topics_by_contact",
               value |-> get_topics_by_contact(df, 5)]
    /\ UNCHANGED <<df, now, llm>>

InitTopics ==
    /\ df = <<>>
    /\ now = Now0
    /\ out = NoCall
    /\ llm = NoInsights

NextTopics ==
    \/ \E u \in Factorizations : AddUnit(u, MaxRows)
    \/ GetTopicsByYear
    \/ GetTopicsByContact

SpecTopics == InitTopics /\ [][NextTopics]_vars

GetUniqueWordsByYear ==
    /\ out' = [fn |-> "get_unique_words_by_year",
               value |-> get_unique_words_by_year(df)]
    /\ UNCHANGED <<df, now, llm>>

\* cleaned texts without a feature: 'k', 'at that'
TextK == <<107>>

TextAtThat == <<97, 116, 32, 116, 104, 97, 116>>

\* small tables, no year of which has the six texts the vectorizer of
\* get_top_phrases_by_year needs
InitWords ==
    /\ df = <<>>
    /\ now = Now0
    /\ out = NoCall
    /\ llm = NoInsights

NextWords ==
    \/ \E year \in {2020, 2021}, f \in {0, 1},
          text \in {TextCoffee, TextK, TextAtThat} :
           AddPhrase(year, f, text, MaxRows)
    \/ \E n_phrases \in {20} : GetTopPhrasesByYear(n_phrases)
    \/ GetUniqueWordsByYear

SpecWords == InitWords /\ [][NextWords]_vars

\* 'ok' with an attachment behind it, and the tapback 'Liked "ok"'
TextPhotoOk == <<111, 107, 65532>>

TextLiked == <<76, 105, 107, 101, 100, 32, 34, 111, 107, 34>>

\* the messages appended: who sent it, and its text
LineKinds ==
    {<<1, TextK>>, <<0, TextAtThat>>, <<1, TextPhotoOk>>, <<0, TextLiked>>}

\* the times of the rows, which extract.py does not order
LineTimes == <<Day, 0, 2 * Day, Day \div 2, 3 * Day>>

AddLine(c, kind, limit) ==
    /\ out = NoCall
    /\ Len(df) < limit
    /\ df' = Append(df, TextRow(Len(df) + 1, c, LineTimes[Len(df) + 1],
                                kind[1], kind[2]))
    /\ UNCHANGED <<now, out, llm>>

\* the tests the loop of line 102 can make on texts of at most seven
\* characters
MaxProbes == 2

ExtractSubstantiveMessages(top_contacts, verdicts) ==
    /\ out = NoCall
    /\ out' = [fn |-> "extract_substantive_messages",
               top_contacts |-> top_contacts,
               value |-> extract_substantive_messages(df, top_contacts,
                                                      verdicts)]
    /\ UNCHANGED <<df, now, llm>>

\* one call of build_output, as calc_tokens (line 96) and line 113 make it
BuildOutput(top_contacts, min_length) ==
    /\ out = NoCall
    /\ out' = [fn |-> "build_output",
               top_contacts |-> top_contacts,
               min_length |-> min_length,
               value |-> build_output(AllRows(df, top_contacts), top_contacts,
                                      min_length)]
    /\ UNCHANGED <<df, now, llm>>

TopContactLists == {<<Alex>>, <<Alex, Blair>>, <<Blair, Alex>>}

InitExtract ==
    /\ df = <<>>
    /\ now = Now0
    /\ out = NoCall
    /\ llm = NoInsights

NextExtract ==
    \/ \E c \in {Alex, Blair}, kind \in LineKinds : AddLine(c, kind, MaxRows)
    \/ \E top_contacts \in TopContactLists,
          verdicts \in [1..MaxProbes -> Verdicts] :
           ExtractSubstantiveMessages(top_contacts, verdicts)
    \/ \E top_contacts \in TopContactLists, min_length \in {1, 3, 7, 8} :
           BuildOutput(top_contacts, min_length)

SpecExtract == InitExtract /\ [][NextExtract]_vars

\* the cards of the contact store: a card with a phone number and an
\* address, and a card without a name
CardAl ==
    [givenName |-> Alex, familyName |-> <<>>,
     phoneNumbers |-> <<<<43, 49, 32, 52, 49, 53, 45, 53, 53, 53, 45, 48, 49, 48, 48>>>>,
     emailAddresses |-> <<<<65, 64, 98, 46, 99>>>>]

CardNameless ==
    [givenName |-> <<>>, familyName |-> <<>>,
     phoneNumbers |-> <<<<53, 53, 53>>>>, emailAddresses |-> <<>>]

\* main.py line 69, before any other step
GetContactsFromMacos(store, cards) ==
    /\ out = NoCall
    /\ out' = [fn |-> "get_contacts_from_macos", store |-> store,
               value |-> get_contacts_from_macos(store, cards)]
    /\ UNCHANGED <<df, now, llm>>

\* what the CLI does: it prints ' a' or nothing and exits with 0, it prints
\* 'b ' or a blank and exits with 1, the timeout expires, or the call raises
RunOutcomes ==
    {Completed(0, <<32, 97>>), Completed(0, <<>>), Completed(1, <<98, 32>>),
     Completed(1, <<32>>), TimeoutExpired, OSError}

FailedRun(run) ==
    run.kind # "completed" \/ (run.returncode # 0 /\ Strip(run.stdout) = <<>>)

CACHE_KEYS == <<"wrapped_reflection", "psychological_profile">>

\* the cache file before the run: absent, no JSON, a response, or a null
CacheFiles ==
    {NoFile, BadFile,
     FileOf(SetItem(EmptyDict, "wrapped_reflection", Str(<<99>>))),
     FileOf(SetItem(EmptyDict, "wrapped_reflection", None))}

GenerateLlmInsights(top_contacts, which, verdicts, writable, runs, saves) ==
    /\ \E result \in {generate_llm_insights(df, top_contacts, llm.cache_file,
                          which, verdicts, writable, runs, saves)} :
           /\ llm' = result.self
           /\ out' = [fn |-> "generate_llm_insights", cli_available |-> which,
                      runs |-> runs, raised |-> result.raised,
                      value |-> result.value, invoked |-> result.invoked]
    /\ UNCHANGED <<df, now>>

\* tables with no message, one message, and messages of different lengths
CollaboratorTables ==
    {<<>>,
     <<TextRow(1, Alex, 0, 1, TextK)>>,
     <<TextRow(1, Alex, Day, 1, TextK), TextRow(2, Alex, 0, 0, TextAtThat)>>}

InitCollaborators ==
    /\ df \in CollaboratorTables
    /\ now = Now0
    /\ out = NoCall
    /\ llm \in {LLMInsights(cache_file, FALSE) : cache_file \in CacheFiles}

NextCollaborators ==
    \/ \E store \in StoreOutcomes,
          cards \in {<<>>, <<CardAl>>, <<CardNameless, CardAl>>} :
           GetContactsFromMacos(store, cards)
    \/ \E which \in BOOLEAN, writable \in BOOLEAN,
          verdicts \in {[k \in 1..MaxProbes |-> "within"]},
          runs \in RunOutcomes \X RunOutcomes,
          saves \in {<<save, save>> : save \in SaveOutcomes} :
           GenerateLlmInsights(<<Alex>>, which, verdicts, writable, runs, saves)

SpecCollaborators == InitCollaborators /\ [][NextCollaborators]_vars

\* one LLMInsights object, its cache and its cache file
MaxStarted == 3

Generate(prompt, cache_key, run, save) ==
    /\ llm.started < MaxStarted
    /\ \E result \in {_generate(llm, prompt, cache_key, run, save)} :
           /\ llm' = result.self
           /\ out' = [fn |-> "_generate", prompt |-> prompt,
                      cache_key |-> cache_key, run |-> run,
                      value |-> result.value, invoked |-> result.invoked]
    /\ UNCHANGED <<df, now>>

ClearCache ==
    /\ llm' = clear_cache(llm)
    /\ out' = [fn |-> "clear_cache"]
    /\ UNCHANGED <<df, now>>

InitCache ==
    /\ df = <<>>
    /\ now = Now0
    /\ out = NoCall
    /\ llm \in {LLMInsights(cache_file, which) :
                   cache_file \in CacheFiles, which \in BOOLEAN}

NextCache ==
    \/ \E prompt \in {"reflect", "profile"},
          cache_key \in {CACHE_KEYS[1], CACHE_KEYS[2]},
          run \in RunOutcomes, save \in SaveOutcomes :
           Generate(prompt, cache_key, run, save)
    \/ ClearCache

SpecCache == InitCache /\ [][NextCache]_vars

(***************************************************************************)
(* C1: conversation starts                                                 *)
(***************************************************************************)
\* row x of the table comes before row r in its contact's time-sorted stream
\* (message_id is the position in the table, which breaks ties of datetime)
Before(x, r) ==
    /\ x.contact_name = r.contact_name
    /\ \/ x.datetime < r.datetime
       \/ x.datetime = r.datetime /\ x.message_id < r.message_id

Earlier(r) == {j \in 1..Len(df) : Before(df[j], r)}

\* the row immediately preceding r in its contact's stream
IsPrevOf(j, r) ==
    /\ j \in Earlier(r)
    /\ \A k \in Earlier(r) : k = j \/ Before(df[k], df[j])

StartsCalled == out.fn = "identify_conversation_starts"

\* C1: every message is flagged, and it is flagged as a conversation start
\* iff it is the earliest message of its contact in time order or the gap to
\* the immediately preceding message of the same contact is strictly more
\* than CONVERSATION_GAP_HOURS hours (exactly 4 hours is not a start).
C1_ConversationStartIff ==
    StartsCalled =>
      /\ Len(out.value) = Len(df)
      /\ \A j \in 1..Len(df) :
            \E i \in 1..Len(out.value) : out.value[i].message_id = j
      /\ \A i \in 1..Len(out.value) :
            LET r == out.value[i]
            IN  /\ r.contact_name = df[r.message_id].contact_name
                /\ r.datetime = df[r.message_id].datetime
                /\ r.is_conversation_start <=>
                      \/ Earlier(r) = {}
                      \/ \E j \in Earlier(r) :
                            /\ IsPrevOf(j, r)
                            /\ r.datetime - df[j].datetime >
                                 CONVERSATION_GAP_HOURS * Hour

\* the scenario of the specification: Alex at hours 0, 2 and 10 (all received)
\* gives starts at hours 0 and 10 only
C1_Witness ==
    /\ StartsCalled
    /\ df = <<Row(1, Alex, 0, 0), Row(2, Alex, 2 * Hour, 0),
              Row(3, Alex, 10 * Hour, 0)>>
    /\ [i \in 1..3 |-> out.value[i].is_conversation_start]
         = <<TRUE, FALSE, TRUE>>

(***************************************************************************)
(* C8: conversation initiator statistics                                   *)
(***************************************************************************)
\* row j of the table is a conversation start as C1 characterises it
IsStartRow(j) ==
    \/ Earlier(df[j]) = {}
    \/ \E k \in Earlier(df[j]) :
          /\ IsPrevOf(k, df[j])
          /\ df[j].datetime - df[k].datetime > CONVERSATION_GAP_HOURS * Hour

StartRows(c) ==
    {j \in 1..Len(df) : df[j].contact_name = c /\ IsStartRow(j)}

InitiatorsCalled == out.fn = "get_conversation_initiator_stats"

\* C8: the contacts returned are exactly those with at least 10 flagged
\* conversation starts, each once; you_initiated counts the flagged starts
\* sent by the user, you_initiated + they_initiated = total_conversations and
\* you_initiate_pct = you_initiated / total_conversations * 100 is in [0, 100].
C8_InitiatorStats ==
    InitiatorsCalled =>
      /\ {out.value[i].contact_name : i \in 1..Len(out.value)}
           = {c \in ContactsOf(df) : Cardinality(StartRows(c)) >= 10}
      /\ \A i, k \in 1..Len(out.value) :
            out.value[i].contact_name = out.value[k].contact_name => i = k
      /\ \A i \in 1..Len(out.value) :
            LET e == out.value[i]
                S == StartRows(e.contact_name)
            IN  /\ e.total_conversations = Cardinality(S)
                /\ e.you_initiated
                     = Cardinality({j \in S : df[j].is_from_me = 1})
                /\ e.you_initiated + e.they_initiated = e.total_conversations
                /\ e.you_initiate_pct
                     = Frac(e.you_initiated * 100, e.total_conversations)
                /\ GE(e.you_initiate_pct, Frac(0, 1))
                /\ GE(Frac(100, 1), e.you_initiate_pct)

\* Alex reaches exactly 10 starts, 6 of them sent by the user, and is
\* returned next to Blair; a contact with 9 starts stays out
C8_Witness ==
    /\ InitiatorsCalled
    /\ \E i \in 1..Len(out.value) :
          /\ out.value[i].contact_name = Alex
          /\ out.value[i].total_conversations = 10
          /\ out.value[i].you_initiated = 6
          /\ out.value[i].you_initiate_pct = Frac(600, 10)
    /\ \E i \in 1..Len(out.value) : out.value[i].contact_name = Blair

(***************************************************************************)
(* C7: response pairs                                                      *)
(***************************************************************************)
\* the row immediately before row j in its contact's time-sorted stream, 0
\* for the first row of a contact
PrevRow(j) ==
    IF Earlier(df[j]) = {} THEN 0
    ELSE CHOOSE k \in Earlier(df[j]) : IsPrevOf(k, df[j])

PrevRows == [j \in 1..Len(df) |-> PrevRow(j)]

\* the latency of row j: the gap to the row before it (prev = PrevRows)
Latency(prev, j) == df[j].datetime - df[prev[j]].datetime

\* row j is a response within the window: it immediately follows, in its
\* contact's time-sorted stream, a row of the opposite direction, after a gap
\* g with 0 < g < window
IsResponseRow(prev, j, window) ==
    /\ prev[j] # 0
    /\ df[prev[j]].is_from_me # df[j].is_from_me
    /\ 0 < Latency(prev, j)
    /\ Latency(prev, j) < window

\* the responses of contact c sent by `sender` (1: the user, 0: the contact)
ResponseRows(prev, c, sender, window) ==
    {j \in 1..Len(df) : /\ df[j].contact_name = c
                        /\ df[j].is_from_me = sender
                        /\ IsResponseRow(prev, j, window)}

\* m is the mean of a lower and an upper middle value of lat over rows R
\* (below[j], above[j]: the number of rows of R with a smaller, greater value)
IsMiddleMean(m, lat, R, below, above) ==
    LET n == Cardinality(R)
    IN  \E a, b \in R :
           /\ 2 * below[a] <= n - 1 /\ 2 * above[a] <= n
           /\ 2 * below[b] <= n /\ 2 * above[b] <= n - 1
           /\ m.den # 0
           /\ m.num * 2 = (lat[a] + lat[b]) * m.den

\* m is the median of the values lat[j] of the rows j of R (not empty)
IsMedianOver(m, lat, R) ==
    \A below \in {[j \in R |-> Cardinality({i \in R : lat[i] < lat[j]})]},
       above \in {[j \in R |-> Cardinality({i \in R : lat[i] > lat[j]})]} :
        IsMiddleMean(m, lat, R, below, above)

\* m is the median of the latencies of the rows R (not empty)
IsMedianOf(m, prev, R) ==
    \A lat \in {[j \in R |-> Latency(prev, j)]} : IsMedianOver(m, lat, R)

MedianOrNaN(m, prev, R) ==
    IF R = {} THEN IsNaN(m) ELSE IsMedianOf(m, prev, R)

DayWindowHolds(prev) ==
      /\ {out.value[i].contact_name : i \in 1..Len(out.value)}
           = {c \in ContactsOf(df) :
                 ResponseRows(prev, c, 0, Day)
                     \cup ResponseRows(prev, c, 1, Day) # {}}
      /\ \A i \in 1..Len(out.value) :
            LET e == out.value[i]
                yours == ResponseRows(prev, e.contact_name, 1, Day)
                theirs == ResponseRows(prev, e.contact_name, 0, Day)
            IN  /\ MedianOrNaN(e.your_response_time_sec, prev, yours)
                /\ MedianOrNaN(e.their_response_time_sec, prev, theirs)
                /\ MedianOrNaN(Frac(e.your_response_time_min.num * 60,
                                    e.your_response_time_min.den), prev, yours)
                /\ MedianOrNaN(Frac(e.their_response_time_min.num * 60,
                                    e.their_response_time_min.den), prev, theirs)

\* C7 (calculate_response_times): the table holds exactly the contacts with a
\* response within RESPONSE_WINDOW = 1 day, and for both directions the median
\* latency of the responses sent in that direction, in seconds and in minutes
\* (NaN for a direction without responses).
C7_DayWindow ==
    out.fn = "calculate_response_times" =>
        \A prev \in {PrevRows} : DayWindowHolds(prev)

WeekWindowHolds(prev) ==
      LET asked(c) == out.top_contacts = {} \/ c \in out.top_contacts
          R == {j \in 1..Len(df) :
                   /\ asked(df[j].contact_name)
                   /\ IsResponseRow(prev, j, WEEK_DAYS * Day)}
          listed(l, sender) ==
              \A i \in 1..Len(l) :
                 LET rows == ResponseRows(prev, l[i].contact_name, sender,
                                          WEEK_DAYS * Day)
                 IN  /\ asked(l[i].contact_name)
                     /\ l[i].response_count = Cardinality(rows)
                     /\ IsMedianOf(l[i].median_seconds, prev, rows)
      IN  /\ out.value.available <=> R # {}
          /\ out.value.available =>
                /\ out.value.total_responses_analyzed = Cardinality(R)
                /\ listed(out.value.they_respond_fast, 0)
                /\ listed(out.value.they_respond_slow, 0)
                /\ listed(out.value.you_respond_fast, 1)
                /\ listed(out.value.you_respond_slow, 1)

\* C7 (get_response_time_stats): the responses analysed are exactly the
\* responses within RESPONSE_WINDOW = 7 days (of the contacts asked for), and
\* every listed median is the median latency of the contact's responses in
\* that direction.
C7_WeekWindow ==
    out.fn = "get_response_time_stats" =>
        \A prev \in {PrevRows} : WeekWindowHolds(prev)

\* C7: a message counts as a response iff it immediately follows a message of
\* the opposite direction of its contact after a gap g with 0 < g <
\* RESPONSE_WINDOW; the latency goes to the sender of the later message;
\* calculate_response_times uses a window of 1 day and reports medians in
\* minutes, get_response_time_stats uses 7 days; a first message, a gap of 0
\* and a gap equal to the window are never responses.
C7_ResponsePairs == C7_DayWindow /\ C7_WeekWindow

\* Alex's first message at the end of the history (not a response), then an
\* answer of the user exactly one day later (no response either); Casey's
\* medians are those of the history: 500 seconds both ways, 500 / 60 minutes
C7_Witness ==
    /\ out.fn = "calculate_response_times"
    /\ Len(df) = Len(ResponseBase) + 2
    /\ df[11] = Row(11, Alex, 4500, 0)
    /\ df[12] = Row(12, Alex, 4500 + Day, 1)
    /\ Len(out.value) = 1
    /\ out.value[1].contact_name = Casey
    /\ out.value[1].your_response_time_sec = Frac(1000, 2)
    /\ out.value[1].their_response_time_sec = Frac(1000, 2)
    /\ out.value[1].your_response_time_min = Frac(1000, 120)

(***************************************************************************)
(* C9: ranks of the contacts of a year                                     *)
(***************************************************************************)
\* the number of messages of contact c in year y
CountIn(y, c) ==
    Cardinality({j \in 1..Len(df) :
        YearOf(df[j].datetime) = y /\ df[j].contact_name = c})

YearsOf(d) == {YearOf(d[j].datetime) : j \in 1..Len(d)}

\* 1 plus the number of contacts of year y with strictly more messages
TieRank(y, c) ==
    1 + Cardinality({x \in ContactsOf(df) : CountIn(y, x) > CountIn(y, c)})

\* C9: within each year the rank of a contact is 1 plus the number of
\* contacts of that year with a strictly greater message count (ties share a
\* rank, the next count skips ranks), and exactly the rows with rank <= n are
\* returned, once each.
C9_TieRanking ==
    out.fn = "get_top_contacts_by_year" =>
      /\ \A i \in 1..Len(out.value) :
            LET r == out.value[i]
            IN  /\ r.total_messages = CountIn(r.year, r.contact_name)
                /\ r.total_messages > 0
                /\ r.rank = TieRank(r.year, r.contact_name)
                /\ r.rank <= out.n
                /\ \A k \in 1..Len(out.value) :
                      /\ out.value[k].year = r.year
                      /\ out.value[k].contact_name = r.contact_name
                      => k = i
      /\ \A y \in YearsOf(df), c \in ContactsOf(df) :
            CountIn(y, c) > 0 /\ TieRank(y, c) <= out.n =>
               \E i \in 1..Len(out.value) :
                  out.value[i].year = y /\ out.value[i].contact_name = c

\* counts {Alex: 10, Blair: 10, Casey: 5} in one year give ranks 1, 1 and 3
C9_Witness ==
    /\ out.fn = "get_top_contacts_by_year"
    /\ out.n = 10
    /\ \E a, b, c \in 1..Len(out.value) :
          /\ out.value[a].contact_name = Alex /\ out.value[a].year = START_YEAR
          /\ out.value[a].total_messages = 10 /\ out.value[a].rank = 1
          /\ out.value[b].contact_name = Blair /\ out.value[b].year = START_YEAR
          /\ out.value[b].total_messages = 10 /\ out.value[b].rank = 1
          /\ out.value[c].contact_name = Casey /\ out.value[c].year = START_YEAR
          /\ out.value[c].total_messages = 5 /\ out.value[c].rank = 3

(***************************************************************************)
(* C10: longest streaks                                                    *)
(***************************************************************************)
\* the dates with a message exchanged with contact c (sent or received)
ActiveDates(c) ==
    {DateOf(df[j].datetime) : j \in {j \in 1..Len(df) : df[j].contact_name = c}}

\* the dates on which the user sent a message to contact c
SentDates(c) ==
    {DateOf(df[j].datetime) : j \in
        {j \in 1..Len(df) : df[j].contact_name = c /\ df[j].is_from_me = 1}}

\* the dates a..b are a maximal run of consecutive dates of D
IsMaximalRun(a, b, D) ==
    /\ a <= b
    /\ \A x \in a..b : x \in D
    /\ (a - 1) \notin D
    /\ (b + 1) \notin D

\* some run of consecutive dates of D is longer than len
LongerRunExists(len, D) ==
    \E a \in D : \A x \in a..(a + len) : x \in D

StreaksCalled == out.fn = "get_longest_streaks"

\* the reported streak of every returned contact is a longest maximal run of
\* consecutive dates of D[contact]
StreaksAreLongestRuns(D) ==
    \A i \in 1..Len(out.value) :
       LET r == out.value[i]
       IN  /\ IsMaximalRun(r.start_date, r.end_date, D[r.contact_name])
           /\ r.streak_length = r.end_date - r.start_date + 1
           /\ ~LongerRunExists(r.streak_length, D[r.contact_name])

\* C10 as claimed: the reported streak is a longest maximal run of
\* consecutive calendar dates on each of which the user sent at least one
\* message to the contact.
C10_SentStreaks ==
    StreaksCalled =>
        StreaksAreLongestRuns([c \in ContactsOf(df) |-> SentDates(c)])

\* C10 as amended: the reported streak is a longest maximal run of
\* consecutive calendar dates (each exactly 1 day after the previous) on each
\* of which at least one message was exchanged with the contact, sent or
\* received; a gap of more than 1 day ends a streak; start_date and end_date
\* are the first and last date of the run; every contact of at most top_n
\* contacts is reported once.
C10_ExchangedStreaks ==
    StreaksCalled =>
      /\ StreaksAreLongestRuns([c \in ContactsOf(df) |-> ActiveDates(c)])
      /\ \A i, k \in 1..Len(out.value) :
            out.value[i].contact_name = out.value[k].contact_name => i = k
      /\ Cardinality(ContactsOf(df)) <= TOP_STREAKS =>
            {out.value[i].contact_name : i \in 1..Len(out.value)}
                = ContactsOf(df)

\* messages with Alex on the first, second and fifth day: the streak is the
\* first two days, and the fifth day (a gap of 3 days) is not part of it
C10_Witness ==
    /\ StreaksCalled
    /\ ActiveDates(Alex) = {0, 1, 4}
    /\ \E i \in 1..Len(out.value) :
          out.value[i] = [contact_name |-> Alex, streak_length |-> 2,
                          start_date |-> 0, end_date |-> 1]

(***************************************************************************)
(* C2 - C6: fading friendships and emerging connections.  The claims are   *)
(* stated over the table and the clock with exact integer arithmetic: a    *)
(* rate of count messages in days days is 7 * count / days, and the        *)
(* comparisons of rates are cross-multiplied.                              *)
(***************************************************************************)
FadingCalled == out.fn = "detect_fading_friendships"

EmergingCalled == out.fn = "detect_new_connections"

\* the positions of the messages of contact c in the table
MessagesOf(c) == {i \in 1..Len(df) : df[i].contact_name = c}

\* the number of messages of c in the trailing days days
Trailing(c, days) ==
    Cardinality({i \in MessagesOf(c) : df[i].datetime >= now - days * Day})

\* the number of messages of c in [now - older days, now - newer days)
Between(c, older, newer) ==
    Cardinality({i \in MessagesOf(c) :
                    /\ df[i].datetime >= now - older * Day
                    /\ df[i].datetime < now - newer * Day})

\* the whole days elapsed since the last and the first message of c
DaysSinceLast(c) ==
    CHOOSE n \in {(now - df[i].datetime) \div Day : i \in MessagesOf(c)} :
        \A i \in MessagesOf(c) : (now - df[i].datetime) \div Day >= n

DaysSinceFirst(c) ==
    CHOOSE n \in {(now - df[i].datetime) \div Day : i \in MessagesOf(c)} :
        \A i \in MessagesOf(c) : (now - df[i].datetime) \div Day <= n

\* the seconds elapsed since the last message of c
SecondsSinceLast(c) ==
    CHOOSE n \in {now - df[i].datetime : i \in MessagesOf(c)} :
        \A i \in MessagesOf(c) : now - df[i].datetime >= n

\* the number of calendar months in which c has a message
ActiveMonths(c) ==
    Cardinality({<<YearOf(df[i].datetime), MonthOf(df[i].datetime)>> :
                    i \in MessagesOf(c)})

\* the names the function returned, and the entry of a name
Returned == {out.value[k].contact_name : k \in 1..Len(out.value)}

EntryOf(c) ==
    out.value[CHOOSE k \in 1..Len(out.value) : out.value[k].contact_name = c]

\* the first two rejection gates of detect_fading_friendships (spec 4.2,
\* steps 1 and 2), the last message being at most 365 whole days old
PassesHistoryGates(c) ==
    /\ ~IsIdentifier(c)
    /\ Cardinality(MessagesOf(c)) >= 100
    /\ DaysSinceLast(c) <= 365
    /\ ActiveMonths(c) >= 3
    /\ Trailing(c, 730) >= 30

\* the window prior_rate is taken from: the prior year if it holds 15
\* messages, else the six months before the trailing 90 days if they hold 15
\* messages, else none (days = 0)
PriorWindow(c) ==
    IF Between(c, 730, 365) >= 15
    THEN [count |-> Between(c, 730, 365), days |-> 365]
    ELSE IF Between(c, 270, 90) >= 15
    THEN [count |-> Between(c, 270, 90), days |-> 180]
    ELSE [count |-> 0, days |-> 0]

\* prior_rate >= 1.0 for prior window w: 7 * count / days >= 1
MeaningfulRate(w) == 7 * w.count >= w.days

\* recent_rate < 0.3 * prior_rate for r messages in the trailing 90 days:
\* 7 * r / 90 < 0.3 * 7 * count / days
BelowThirtyPercent(r, w) == 10 * r * w.days < 270 * w.count

\* value, a number of tenths, is x / y rounded to one decimal
IsRoundedTenths(value, x, y) ==
    /\ 2 * (value.num * y - 10 * x) <= y
    /\ 2 * (10 * x - value.num * y) <= y
    /\ value.den = 10

\* C2: every contact that passes all rejection gates of
\* detect_fading_friendships is classified as fading if and only if
\* prior_rate >= 1.0 and recent_rate < 0.3 * prior_rate, with recent_rate =
\* (messages in the trailing 90 days) / 90 * 7; the reported drop
\* percentage is (1 - recent_rate / prior_rate) * 100 (to one decimal)
C2_FadingIff ==
    FadingCalled =>
        \A c \in ContactsOf(df) :
            \A w \in {PriorWindow(c)}, r \in {Trailing(c, 90)} :
                (PassesHistoryGates(c) /\ w.days # 0) =>
                    /\ c \in Returned <=>
                           MeaningfulRate(w) /\ BelowThirtyPercent(r, w)
                    /\ c \in Returned =>
                           IsRoundedTenths(EntryOf(c).drop_percentage,
                                           100 * (90 * w.count - r * w.days),
                                           90 * w.count)

\* the part of C2 that the code does satisfy: a contact is fading if its
\* recent rate is below 30% of the prior rate, and only if it is not above
FadingUpToTies ==
    FadingCalled =>
        \A c \in ContactsOf(df) :
            \A w \in {PriorWindow(c)}, r \in {Trailing(c, 90)} :
                (PassesHistoryGates(c) /\ w.days # 0) =>
                    /\ (MeaningfulRate(w) /\ BelowThirtyPercent(r, w))
                           => c \in Returned
                    /\ c \in Returned =>
                           /\ MeaningfulRate(w)
                           /\ 10 * r * w.days <= 270 * w.count
                           /\ IsRoundedTenths(EntryOf(c).drop_percentage,
                                  100 * (90 * w.count - r * w.days),
                                  90 * w.count)

\* C3: prior_rate is taken from the 365-day window ending 365 days before
\* now whenever that window holds at least 15 messages (count / 365 * 7),
\* else from the 180-day window [now - 270 days, now - 90 days) if that one
\* holds at least 15 messages (count / 180 * 7), and a contact with fewer
\* than 15 messages in both windows is rejected; so a contact with 15 to 52
\* messages in the prior-year window is never fading
C3_PriorWindow ==
    FadingCalled =>
        \A c \in ContactsOf(df) :
            \A w \in {PriorWindow(c)}, r \in {Trailing(c, 90)} :
                /\ c \in Returned =>
                       /\ w.days # 0
                       /\ MeaningfulRate(w)
                       /\ IsRoundedTenths(EntryOf(c).baseline_rate,
                                          7 * w.count, w.days)
                /\ ( /\ PassesHistoryGates(c)
                     /\ w.days # 0
                     /\ MeaningfulRate(w)
                     /\ BelowThirtyPercent(r, w) ) => c \in Returned
                /\ Between(c, 730, 365) \in 15..52 => c \notin Returned

\* a contact with 15 to 52 messages in the prior year, at least 26 in the
\* six-month window and none in the trailing 90 days is not returned, while
\* a contact whose rate comes from the six-month window is
C3_Witness ==
    /\ FadingCalled
    /\ \E c \in ContactsOf(df) :
           /\ PassesHistoryGates(c)
           /\ Between(c, 730, 365) \in 15..52
           /\ Between(c, 270, 90) >= 26
           /\ Trailing(c, 90) = 0
           /\ c \notin Returned
    /\ \E c \in Returned :
           /\ Between(c, 730, 365) < 15
           /\ IsRoundedTenths(EntryOf(c).baseline_rate,
                              7 * Between(c, 270, 90), 180)

BelowPointTwo(p) == 70 * p < 360

\* the label of a growth factor: decimal digits and an 'x'
IsFactorLabel(s) ==
    /\ Len(s) >= 2
    /\ s[Len(s)] = 120
    /\ \A i \in 1..(Len(s) - 1) : s[i] \in 48..57

\* the number that the digits of a factor label spell
RECURSIVE NumberOf(_)
NumberOf(s) ==
    IF s = <<>> THEN 0
    ELSE 10 * NumberOf(SubSeq(s, 1, Len(s) - 1)) + (s[Len(s)] - 48)

\* contact c with r messages in the trailing 30 days and p in the 180 days
\* before is to be reported
Emerges(c, r, p) ==
    /\ DaysSinceLast(c) <= 30
    /\ DaysSinceFirst(c) >= 60
    /\ r >= 4
    /\ \/ BelowPointTwo(p) /\ 14 * r >= 30
       \/ ~BelowPointTwo(p) /\ 6 * r >= 5 * p

\* C5: detect_new_connections reports a person-named contact if and only if
\* its last message is within 30 days, its first message at least 60 days
\* old, it has at least 4 messages in the trailing 30 days, and either
\* prior_rate < 0.2 and recent_rate >= 0.5 ('Revived') or prior_rate >= 0.2
\* and recent_rate >= 5 * prior_rate (growth 'Nx', N the rounded factor
\* recent_rate / prior_rate), with recent_rate = r / 30 * 7 and prior_rate =
\* p / 180 * 7
C5_EmergingIff ==
    EmergingCalled =>
        \A c \in ContactsOf(df) :
            \A r \in {Trailing(c, 30)}, p \in {Between(c, 210, 30)} :
                (~IsIdentifier(c) /\ ~IsDigits(c)) =>
                    /\ c \in Returned <=> Emerges(c, r, p)
                    /\ (c \in Returned /\ BelowPointTwo(p)) =>
                           EntryOf(c).growth = RevivedLabel
                    /\ (c \in Returned /\ ~BelowPointTwo(p)) =>
                           /\ IsFactorLabel(EntryOf(c).growth)
                           /\ \A n \in {NumberOf(SubSeq(EntryOf(c).growth, 1,
                                            Len(EntryOf(c).growth) - 1))} :
                                  /\ 2 * (n * p - 6 * r) <= p
                                  /\ 2 * (6 * r - n * p) <= p

\* the part of C5 that the code does satisfy: a contact is reported if its
\* recent rate is above 5 times the prior rate, and only if it is not below
EmergingUpToTies ==
    EmergingCalled =>
        \A c \in ContactsOf(df) :
            \A r \in {Trailing(c, 30)}, p \in {Between(c, 210, 30)} :
                (~IsIdentifier(c) /\ ~IsDigits(c)) =>
                    /\ c \in Returned => Emerges(c, r, p)
                    /\ (Emerges(c, r, p) /\ 6 * r # 5 * p) => c \in Returned
                    /\ (c \in Returned /\ BelowPointTwo(p)) =>
                           EntryOf(c).growth = RevivedLabel
                    /\ (c \in Returned /\ ~BelowPointTwo(p)) =>
                           /\ IsFactorLabel(EntryOf(c).growth)
                           /\ \A n \in {NumberOf(SubSeq(EntryOf(c).growth, 1,
                                            Len(EntryOf(c).growth) - 1))} :
                                  /\ 2 * (n * p - 6 * r) <= p
                                  /\ 2 * (6 * r - n * p) <= p

\* C6: in the output of detect_new_connections no contact appears twice,
\* and an entry is Revived (is_revived = True, growth = 'Revived') exactly
\* when its prior_rate < 0.2, and Growing (is_revived = False, growth a
\* factor label) exactly when its prior_rate >= 0.2
C6_RevivedOrGrowing ==
    EmergingCalled =>
        /\ \A k, l \in 1..Len(out.value) :
               out.value[k].contact_name = out.value[l].contact_name => k = l
        /\ \A k \in 1..Len(out.value) :
               \A e \in {out.value[k]},
                  p \in {Between(out.value[k].contact_name, 210, 30)} :
                   /\ (e.is_revived /\ e.growth = RevivedLabel)
                          <=> BelowPointTwo(p)
                   /\ (~e.is_revived /\ IsFactorLabel(e.growth))
                          <=> ~BelowPointTwo(p)

\* a Revived contact and a Growing contact are reported together
C6_Witness ==
    /\ EmergingCalled
    /\ \E k, l \in 1..Len(out.value) :
           /\ out.value[k].is_revived
           /\ BelowPointTwo(Between(out.value[k].contact_name, 210, 30))
           /\ ~out.value[l].is_revived
           /\ IsFactorLabel(out.value[l].growth)
           /\ ~BelowPointTwo(Between(out.value[l].contact_name, 210, 30))

(***************************************************************************)
(* C11: lopsidedness                                                       *)
(***************************************************************************)
LopsidedCalled == out.fn = "calculate_lopsidedness"

\* the messages of the table sent to contact c, and all those exchanged
SentTo(c) ==
    Cardinality({i \in 1..Len(df) :
                    df[i].contact_name = c /\ df[i].is_from_me = 1})

TotalOf(c) == Cardinality({i \in 1..Len(df) : df[i].contact_name = c})

\* the float x is the quotient n / d of two positive integers up to a
\* relative error of 2^-50
NearQuotient(x, n, d) ==
    /\ BitLen(x.m) = MantissaBits
    /\ x.e < 0
    /\ \A scaled \in {BigShl(Big(n), 0 - x.e)} :
       \A prod \in {BigMulSmall(x.m, d, 0)} :
       \A diff \in {IF BigLess(prod, scaled) THEN BigSub(scaled, prod)
                    ELSE BigSub(prod, scaled)} :
           diff = <<>> \/ BigLess(BigShl(diff, 50), scaled)

\* C11: every reported contact has received = total - sent >= 0 and a finite
\* lopsidedness >= 0 equal to sent / (received + 0.1), that is to
\* 10 * sent / (10 * received + 1); it is 0 when sent = 0 and 10 * sent when
\* received = 0
C11_Lopsidedness ==
    LopsidedCalled =>
        \A k \in 1..Len(out.value) :
        \A e \in {out.value[k]} :
        \A s \in {SentTo(out.value[k].contact_name)} :
        \A r \in {TotalOf(out.value[k].contact_name) - s} :
            /\ e.sent = s
            /\ e.total = s + r
            /\ e.received = r
            /\ e.received >= 0
            /\ s = 0 => e.lopsidedness = FloatZero
            /\ s > 0 => NearQuotient(e.lopsidedness, 10 * s, 10 * r + 1)
            /\ r = 0 => e.lopsidedness = FromInt(10 * s)

\* the table reported holds a contact who was never written to, one who never
\* wrote, and one with messages in both directions
C11_Witness ==
    /\ LopsidedCalled
    /\ \E k \in 1..Len(out.value) :
           out.value[k].sent = 0 /\ out.value[k].received > 0
    /\ \E k \in 1..Len(out.value) :
           out.value[k].received = 0 /\ out.value[k].sent > 0
    /\ \E k \in 1..Len(out.value) :
           out.value[k].received > 0 /\ out.value[k].sent > 0

(***************************************************************************)
(* C12: the minimum number of messages of a ranked contact                 *)
(***************************************************************************)
\* the output is one of the per-contact rankings
RankingCalled ==
    out.fn \in {"get_top_contacts_alltime", "get_top_contacts_by_year",
                "calculate_lopsidedness"}

\* C12: no contact with fewer than MIN_MESSAGES_FOR_TOP_CONTACT messages in
\* total appears in get_top_contacts_alltime, get_top_contacts_by_year or
\* calculate_lopsidedness, and get_yearly_volume counts every message of the
\* table
C12_MinMessages ==
    /\ RankingCalled =>
           \A k \in 1..Len(out.value) :
               TotalOf(out.value[k].contact_name)
                   >= MIN_MESSAGES_FOR_TOP_CONTACT
    /\ out.fn = "get_yearly_volume" =>
           \A y \in {YearOf(df[i].datetime) : i \in 1..Len(df)} :
               \E k \in 1..Len(out.value) :
                   /\ out.value[k].year = y
                   /\ out.value[k].total =
                          Cardinality({i \in 1..Len(df) :
                                          YearOf(df[i].datetime) = y})

\* the part of C12 that the code keeps: the threshold in
\* calculate_lopsidedness, and the totals of get_yearly_volume
MinMessagesWhereFiltered ==
    /\ LopsidedCalled =>
           /\ \A k \in 1..Len(out.value) :
                  TotalOf(out.value[k].contact_name)
                      >= MIN_MESSAGES_FOR_TOP_CONTACT
           /\ \A c \in ContactsOf(df) :
                  TotalOf(c) >= MIN_MESSAGES_FOR_TOP_CONTACT =>
                      \E k \in 1..Len(out.value) :
                          out.value[k].contact_name = c
    /\ out.fn = "get_yearly_volume" =>
           \A y \in {YearOf(df[i].datetime) : i \in 1..Len(df)} :
               \E k \in 1..Len(out.value) :
                   /\ out.value[k].year = y
                   /\ out.value[k].total =
                          Cardinality({i \in 1..Len(df) :
                                          YearOf(df[i].datetime) = y})

(***************************************************************************)
(* C13: one-sided contacts                                                 *)
(***************************************************************************)
FilterCalled == out.fn = "filter_contacts"

\* the messages of contact c, and those sent to c, in the table that enters
\* the filter
EnteringTotal(c) ==
    Cardinality({i \in 1..Len(out.named) : out.named[i].contact_name = c})

EnteringSent(c) ==
    Cardinality({i \in 1..Len(out.named) :
        out.named[i].contact_name = c /\ out.named[i].is_from_me = 1})

\* the filtered table holds exactly the rows of the contacts in S, in order
KeepsExactly(S) ==
    df = SelectSeq(out.named, LAMBDA r : r.contact_name \in S)

\* C13 as stated: a contact remains iff its sent fraction and its received
\* fraction both exceed 0.05 (20 * count > total), all the messages of the
\* other contacts are removed, and a contact with sent = 0 or received = 0 is
\* removed
C13_TwoWayExceeds ==
    FilterCalled =>
        KeepsExactly({c \in ContactsOf(out.named) :
            /\ 20 * EnteringSent(c) > EnteringTotal(c)
            /\ 20 * (EnteringTotal(c) - EnteringSent(c)) > EnteringTotal(c)})

\* C13, amended: a contact remains iff its sent fraction and its received
\* fraction are both at least 0.05 (20 * count >= total), all the messages
\* of the other contacts are removed, and a contact with sent = 0 or
\* received = 0 is removed
C13_TwoWayAtLeast ==
    FilterCalled =>
        /\ KeepsExactly({c \in ContactsOf(out.named) :
               /\ 20 * EnteringSent(c) >= EnteringTotal(c)
               /\ 20 * (EnteringTotal(c) - EnteringSent(c))
                      >= EnteringTotal(c)})
        /\ \A c \in ContactsOf(out.named) :
               EnteringSent(c) = 0 \/ EnteringSent(c) = EnteringTotal(c) =>
                   c \notin ContactsOf(df)

\* the filter has kept a contact at exactly 5% in one direction, removed one
\* below 5% and removed one with messages in one direction only
C13_Witness ==
    /\ FilterCalled
    /\ \E c \in ContactsOf(df) : 20 * EnteringSent(c) = EnteringTotal(c)
    /\ \E c \in ContactsOf(out.named) \ ContactsOf(df) :
           /\ EnteringSent(c) > 0
           /\ EnteringSent(c) < EnteringTotal(c)
    /\ \E c \in ContactsOf(out.named) \ ContactsOf(df) :
           EnteringSent(c) = EnteringTotal(c)

(***************************************************************************)
(* C14: the ten entries returned by the trend detectors                    *)
(***************************************************************************)
\* contact c is classified as fading (spec 4.2, steps 1 to 5)
IsFading(c) ==
    /\ PassesHistoryGates(c)
    /\ PriorWindow(c).days # 0
    /\ MeaningfulRate(PriorWindow(c))
    /\ BelowThirtyPercent(Trailing(c, 90), PriorWindow(c))

\* drop_pct of a is larger than drop_pct of b: recent_rate / prior_rate,
\* which is 7 * r / 90 over 7 * count / days, is smaller for a
LargerDrop(a, b) ==
    \A wa \in {PriorWindow(a)}, wb \in {PriorWindow(b)} :
        Trailing(a, 90) * wa.days * wb.count
            < Trailing(b, 90) * wb.days * wa.count

\* contact c qualifies as an emerging connection (spec 4.3)
IsEmerging(c) ==
    /\ ~IsIdentifier(c)
    /\ ~IsDigits(c)
    /\ Emerges(c, Trailing(c, 30), Between(c, 210, 30))

\* C14: detect_fading_friendships returns at most 10 entries in descending
\* order of drop_pct, and no fading contact left out has a larger drop_pct
\* than a returned one; detect_new_connections returns at most 10 entries in
\* descending order of recent_rate, and no qualifying contact left out has
\* a larger recent_rate than a returned one
C14_TopTen ==
    /\ FadingCalled =>
           /\ Len(out.value) <= 10
           /\ \A k, l \in 1..Len(out.value) :
                  k < l => ~LargerDrop(out.value[l].contact_name,
                                       out.value[k].contact_name)
           /\ \A c \in ContactsOf(df) \ Returned :
                  IsFading(c) => \A b \in Returned : ~LargerDrop(c, b)
    /\ EmergingCalled =>
           /\ Len(out.value) <= 10
           /\ \A k, l \in 1..Len(out.value) :
                  k < l => Trailing(out.value[l].contact_name, 30)
                               <= Trailing(out.value[k].contact_name, 30)
           /\ \A c \in ContactsOf(df) \ Returned :
                  IsEmerging(c) =>
                      \A b \in Returned : Trailing(c, 30) <= Trailing(b, 30)

\* the tenths nearest to drop_pct of contact c are at most v
DropRoundsBelow(c, v) ==
    \A w \in {PriorWindow(c)} :
        \E t \in 0..v :
            IsRoundedTenths(Frac(t, 10),
                            100 * (90 * w.count - Trailing(c, 90) * w.days),
                            90 * w.count)

\* the part of C14 that the code keeps: the entries are in descending order
\* of the reported drop_percentage, which is drop_pct rounded to one decimal,
\* the ten fading contacts with the largest rounded drop are returned, and
\* the emerging contacts are cut to the ten largest recent rates
TopTenAsReported ==
    /\ FadingCalled =>
           /\ Len(out.value) <= 10
           /\ \A k, l \in 1..Len(out.value) :
                  k < l => out.value[l].drop_percentage.num
                               <= out.value[k].drop_percentage.num
           /\ \A c \in ContactsOf(df) \ Returned :
                  IsFading(c) =>
                      /\ Len(out.value) = 10
                      /\ \A k \in 1..Len(out.value) :
                             DropRoundsBelow(c,
                                 out.value[k].drop_percentage.num)
    /\ EmergingCalled =>
           /\ Len(out.value) <= 10
           /\ \A k, l \in 1..Len(out.value) :
                  k < l => Trailing(out.value[l].contact_name, 30)
                               <= Trailing(out.value[k].contact_name, 30)
           /\ \A c \in ContactsOf(df) \ Returned :
                  IsEmerging(c) =>
                      /\ Len(out.value) = 10
                      /\ \A b \in Returned :
                             Trailing(c, 30) <= Trailing(b, 30)

(***************************************************************************)
(* C15: contacts with messages in one direction only                       *)
(***************************************************************************)
\* all the messages of contact c have the same is_from_me
OneDirection(c) ==
    \A i, j \in 1..Len(df) :
        (df[i].contact_name = c /\ df[j].contact_name = c) =>
            df[i].is_from_me = df[j].is_from_me

\* C15: calculate_response_times returns a table, and a contact all of whose
\* messages have the same is_from_me has no row in it
C15_OneDirectionAbsent ==
    out.fn = "calculate_response_times" =>
        /\ out.value \in Seq({out.value[k] : k \in 1..Len(out.value)})
        /\ \A c \in ContactsOf(df) :
               OneDirection(c) =>
                   \A k \in 1..Len(out.value) : out.value[k].contact_name # c

\* a contact with two messages of the same direction, a minute apart, is
\* absent from the table, in which another contact has a row
C15_Witness ==
    /\ out.fn = "calculate_response_times"
    /\ \E c \in ContactsOf(df) :
           /\ OneDirection(c)
           /\ \E i, j \in 1..Len(df) :
                  /\ df[i].contact_name = c
                  /\ df[j].contact_name = c
                  /\ df[j].datetime = df[i].datetime + 60
           /\ \A k \in 1..Len(out.value) : out.value[k].contact_name # c
    /\ Len(out.value) > 0

(***************************************************************************)
(* C16: the trend detectors and the clock                                  *)
(***************************************************************************)
\* a step that evaluates again, on the same table, the function whose
\* result out holds
EvaluatedAgain == out.fn # "none" /\ out'.fn = out.fn /\ df' = df

\* C16: two evaluations of detect_fading_friendships, or of
\* detect_new_connections, on the same table return the same list, whatever
\* the moments of the two evaluations
C16_ClockIndependent == [][EvaluatedAgain => out'.value = out.value]_vars

(***************************************************************************)
(* C17: the order of the input rows                                        *)
(***************************************************************************)
\* the table with rows i and j exchanged, and the table reversed
Exchanged(d, i, j) ==
    [k \in 1..Len(d) |-> IF k = i THEN d[j] ELSE IF k = j THEN d[i] ELSE d[k]]

Reversed(d) == [k \in 1..Len(d) |-> d[Len(d) + 1 - k]]

\* orderings of the rows of the table: each pair of two of the last rows
\* exchanged, and the whole table reversed
Orderings ==
    {Exchanged(df, i, j) : i, j \in {k \in 1..Len(df) : k + 3 > Len(df)}}
    \cup {Reversed(df)}

\* the messages that a flagged table marks as conversation starts
FlaggedIds(t) ==
    {t[k].message_id : k \in {k \in 1..Len(t) : t[k].is_conversation_start}}

\* two rows of one contact carry the same timestamp
TiedRows ==
    \E i, j \in 1..Len(df) :
        /\ i # j
        /\ df[i].contact_name = df[j].contact_name
        /\ df[i].datetime = df[j].datetime

\* the result out, of the function out.fn, is also the result for ordering d
SameResultFor(d) ==
    /\ StartsCalled =>
           FlaggedIds(identify_conversation_starts(d)) = FlaggedIds(out.value)
    /\ InitiatorsCalled => get_conversation_initiator_stats(d) = out.value
    /\ out.fn = "calculate_response_times" =>
           calculate_response_times(d) = out.value

\* C17: for every ordering of the rows of the table, ties of timestamp
\* within a contact included, identify_conversation_starts flags the same
\* messages and get_conversation_initiator_stats and
\* calculate_response_times return the same values
C17_OrderIndependent == \A d \in Orderings : SameResultFor(d)

\* what the code keeps: the results do not depend on the order of the rows
\* when no two rows of a contact carry the same timestamp
OrderIndependentWithoutTies == TiedRows \/ \A d \in Orderings : SameResultFor(d)

(***************************************************************************)
(* C18: the analyses leave the table alone                                 *)
(***************************************************************************)
\* a step in which an analysis returns
AnalysisReturns == out'.fn # "none" /\ out' # out

\* the step calls again, with the same arguments, the function whose result
\* out holds
SameCall ==
    /\ out'.fn = out.fn
    /\ out.fn = "get_top_contacts_by_year" => out'.n = out.n
    /\ out.fn = "get_response_time_stats" =>
           out'.top_contacts = out.top_contacts

RecentDays == IF FadingCalled THEN 90 ELSE 30

\* the ends, in days before now, and the length of the baseline window of c
BaselineOf(c) ==
    IF EmergingCalled THEN [older |-> 210, newer |-> 30, days |-> 180]
    ELSE IF Between(c, 730, 365) >= 15
    THEN [older |-> 730, newer |-> 365, days |-> 365]
    ELSE [older |-> 270, newer |-> 90, days |-> 180]

\* the messages of c in its recent and in its baseline window
RecentMessages(c) ==
    {i \in MessagesOf(c) : df[i].datetime >= now - RecentDays * Day}

BaselineMessages(c) ==
    {i \in MessagesOf(c) :
        /\ df[i].datetime >= now - BaselineOf(c).older * Day
        /\ df[i].datetime < now - BaselineOf(c).newer * Day}

\* the recent rate of an entry
RecentRate(e) == IF FadingCalled THEN e.recent_rate ELSE e.msgs_per_week

\* C19: in both trend detectors the baseline window and the recent window
\* of a reported contact have no message in common, the recent window spans
\* the 90 (fading) or 30 (emerging) days up to now and the baseline window
\* 365 or 180 days, and each reported rate is the number of messages of its
\* own window divided by the days of that window, times 7 (to one decimal)
C19_Windows ==
    (FadingCalled \/ EmergingCalled) =>
        \A c \in Returned :
            \A w \in {BaselineOf(c)}, recent \in {RecentMessages(c)},
               baseline \in {BaselineMessages(c)} :
                /\ recent \cap baseline = {}
                /\ w.older - w.newer = w.days
                /\ w.newer >= RecentDays
                /\ \A i \in recent : df[i].datetime <= now
                /\ IsRoundedTenths(RecentRate(EntryOf(c)),
                                   7 * Cardinality(recent), RecentDays)
                /\ IsRoundedTenths(EntryOf(c).baseline_rate,
                                   7 * Cardinality(baseline), w.days)

\* a fading contact with messages in both of its windows
C19_Witness ==
    /\ FadingCalled
    /\ \E c \in Returned :
           /\ RecentMessages(c) # {}
           /\ BaselineMessages(c) # {}
           /\ BaselineOf(c).days = 365

\* an emerging contact with messages in both of its windows
C19_WitnessEmerging ==
    /\ EmergingCalled
    /\ \E c \in Returned :
           /\ RecentMessages(c) # {}
           /\ BaselineMessages(c) # {}

(***************************************************************************)
(* C20: the denominators of the divisions                                  *)
(***************************************************************************)
InsightsCalled == out.fn = "content_insights"

SmoothedDenominators ==
    InsightsCalled =>
        /\ \A k \in 1..Len(out.value.denominators) :
               out.value.denominators[k] = FloatZero =>
                   /\ k = Len(out.value.denominators)
                   /\ out.value.insight # <<>>
                   /\ \A i \in SentTexts(df, out.value.insight[1]) :
                          count_pattern(df[i].text, IWords) = 0
        /\ \A c \in ContactsOf(df) :
               Smoothed(Cardinality({i \in 1..Len(df) :
                   df[i].contact_name = c /\ df[i].is_from_me = 0}))
                   # FloatZero

\* the insight is given with a ratio that is not zero
C20_InsightWithRatio ==
    /\ InsightsCalled
    /\ out.value.insight # <<>>
    /\ out.value.denominators[Len(out.value.denominators)] # FloatZero

(***************************************************************************)
(* C21: names that are numbers                                             *)
(***************************************************************************)
\* the name consists only of digits
DigitsOnly(c) == c # <<>> /\ \A i \in 1..Len(c) : c[i] \in 48..57

\* C21: no contact whose name consists only of digits or starts with '+' is
\* returned by detect_fading_friendships
C21_NoNumbersFading ==
    FadingCalled =>
        \A c \in Returned : ~DigitsOnly(c) /\ ~StartsWith(c, <<43>>)

\* what the code does keep out: names that start with '+' or 'urn:' from
\* both lists, and names of digits from the list of detect_new_connections
PrefixedNeverReturned ==
    /\ (FadingCalled \/ EmergingCalled) =>
           \A c \in Returned : ~StartsWith(c, <<43>>) /\ ~IsIdentifier(c)
    /\ EmergingCalled => \A c \in Returned : ~DigitsOnly(c)

\* detect_fading_friendships returns a person and leaves out a phone number
\* with the same history
PhoneLeftOut ==
    /\ FadingCalled
    /\ Alex \in Returned
    /\ Phone \in ContactsOf(df)
    /\ Phone \notin Returned

(***************************************************************************)
(* C22, C23: the phrases of a year                                         *)
(***************************************************************************)
PhrasesCalled == out.fn = "get_top_phrases_by_year"

\* the years of the sent messages, and the cleaned texts sent in a year
SentYears == {df[i].year : i \in {j \in 1..Len(df) : df[j].is_from_me = 1}}

YearTexts(year) ==
    [k \in 1..Len(SelectSeq(df, LAMBDA r : r.is_from_me = 1 /\ r.year = year)) |->
        SelectSeq(df, LAMBDA r : r.is_from_me = 1 /\ r.year = year)[k].clean_text]

\* the candidates of a year in the order of the scan, none if the vectorizer
\* raised
Candidates(year) ==
    CHOOSE r \in
        {IF v.failed THEN <<>> ELSE SortByCount(v.phrase_counts) :
         v \in {Vectorize(YearTexts(year))}} : TRUE

\* the phrases accepted for a year, as the output lists them
Accepted(year) == SelectSeq(out.value, LAMBDA e : e.year = year)

AcceptedPhrases(year) ==
    {out.value[k].phrase :
        k \in {j \in 1..Len(out.value) : out.value[j].year = year}}

\* one of the two phrases holds the other
Related(p, q) == Contains(p, q) \/ Contains(q, p)

\* C22: among the phrases accepted for one year no phrase is a substring of
\* another, and a candidate of the year that contains an accepted phrase or
\* is contained in one is rejected
C22_NoSubstrings ==
    PhrasesCalled =>
        \A year \in SentYears :
            \A accepted \in {AcceptedPhrases(year)},
               candidates \in {Candidates(year)} :
                /\ \A p, q \in accepted : p # q => ~Contains(p, q)
                /\ \A k \in 1..Len(candidates) :
                       (\E p \in accepted :
                            p # candidates[k].phrase
                            /\ Related(p, candidates[k].phrase))
                           => candidates[k].phrase \notin accepted

\* two phrases are accepted for a year in which a candidate is rejected for
\* nothing but holding an accepted phrase, and one phrase is accepted for two
\* years
C22_Witness ==
    /\ PhrasesCalled
    /\ \E year \in SentYears :
           /\ Cardinality(AcceptedPhrases(year)) >= 2
           /\ \E k \in 1..Len(Candidates(year)) :
                  /\ ~TouchesBoringPhrase(Candidates(year)[k].phrase)
                  /\ ~TooFewWords(Split(Candidates(year)[k].phrase))
                  /\ Candidates(year)[k].phrase \notin AcceptedPhrases(year)
                  /\ \E p \in AcceptedPhrases(year) :
                         Contains(Candidates(year)[k].phrase, p)
    /\ \E y1, y2 \in SentYears :
           y1 # y2 /\ AcceptedPhrases(y1) \cap AcceptedPhrases(y2) # {}

\* the position of phrase p among the candidates of a year
PositionIn(candidates, p) ==
    CHOOSE i \in 1..Len(candidates) : candidates[i].phrase = p

\* the words of phrase p that are not in BORING_WORDS
InterestingWords(p) ==
    Cardinality({k \in 1..Len(Split(p)) : Split(p)[k] \notin BORING_WORDS})

\* C23: for each year the phrases returned by get_top_phrases_by_year are
\* those of a scan of the candidates in descending count that accepts a
\* candidate iff it touches no entry of BORING_PHRASES, has at least 2 words
\* outside BORING_WORDS and is not related to a phrase accepted before it,
\* and that stops when n_phrases phrases are accepted; a year has at most
\* n_phrases phrases, in non-increasing count
C23_ScanOfCandidates ==
    PhrasesCalled =>
        \A year \in SentYears :
            \A accepted \in {Accepted(year)},
               candidates \in {Candidates(year)} :
                /\ Len(accepted) <= out.n_phrases
                /\ \A k \in 1..Len(accepted) :
                       \E i \in 1..Len(candidates) :
                           /\ candidates[i].phrase = accepted[k].phrase
                           /\ candidates[i].count = accepted[k].count
                /\ \A k, l \in 1..Len(accepted) :
                       k < l =>
                           /\ accepted[k].count >= accepted[l].count
                           /\ PositionIn(candidates, accepted[k].phrase)
                                  < PositionIn(candidates, accepted[l].phrase)
                /\ \A i, j \in 1..Len(candidates) :
                       i < j => candidates[i].count >= candidates[j].count
                /\ \A i \in 1..Len(candidates) :
                       \A before \in
                          {{accepted[k].phrase :
                              k \in {x \in 1..Len(accepted) :
                                 PositionIn(candidates, accepted[x].phrase)
                                     < i}}} :
                           (candidates[i].phrase \in AcceptedPhrases(year))
                               <=> /\ ~\E boring \in BORING_PHRASES :
                                         Related(boring, candidates[i].phrase)
                                   /\ InterestingWords(candidates[i].phrase) >= 2
                                   /\ \A p \in before :
                                         ~Related(p, candidates[i].phrase)
                                   /\ Cardinality(before) < out.n_phrases

\* a call with n_phrases = 1 stops before a candidate it would have accepted,
\* in a year one candidate of which is rejected for having a single word
\* outside BORING_WORDS and another for holding an entry of BORING_PHRASES
C23_Witness ==
    /\ PhrasesCalled
    /\ out.n_phrases = 1
    /\ \E year \in SentYears :
           \E accepted \in {Accepted(year)}, candidates \in {Candidates(year)} :
               /\ Len(accepted) = 1
               /\ \E i \in 1..Len(candidates) :
                      /\ ~TouchesBoringPhrase(candidates[i].phrase)
                      /\ InterestingWords(candidates[i].phrase) = 1
               /\ \E j \in 1..Len(candidates) :
                      /\ TouchesBoringPhrase(candidates[j].phrase)
                      /\ InterestingWords(candidates[j].phrase) >= 2
               /\ \E k \in 1..Len(candidates) :
                      ~IsBoring(candidates[k].phrase, <<accepted[1].phrase>>)

(***************************************************************************)
(* C24: the terms of a topic                                               *)
(***************************************************************************)
YearTopicsCalled == out.fn = "get_topics_by_year"

ContactTopicsCalled == out.fn = "get_topics_by_contact"

\* the unit and the component a topic of the output was made from
UnitOf(topic) ==
    IF YearTopicsCalled
    THEN df[CHOOSE k \in 1..Len(df) : df[k].year = topic.year]
    ELSE df[CHOOSE k \in 1..Len(df) : df[k].contact_name = topic.contact_name]

RankedOf(topic) == UnitOf(topic).components[topic.topic_id + 1]

\* the terms of words are terms of ranked, in the order they have there
InOrderOf(words, ranked) ==
    /\ \A k \in 1..Len(words) : \E i \in 1..Len(ranked) : ranked[i] = words[k]
    /\ \A k, l \in 1..Len(words) :
           k < l =>
               \E i, j \in 1..Len(ranked) :
                   i < j /\ ranked[i] = words[k] /\ ranked[j] = words[l]

\* a unigram of BORING_WORDS, a bigram of two words of BORING_WORDS, or a
\* term with fewer than 3 characters other than blanks
DullTerm(word) ==
    \/ \A k \in 1..Len(Split(word)) : Split(word)[k] \in BORING_WORDS
    \/ Cardinality({i \in 1..Len(word) : word[i] # 32}) < 3

\* the terms of a topic are at most 5, in descending weight, none of them
\* dull
PlainTerms(topic) ==
    /\ Len(topic.top_words) \in 1..5
    /\ InOrderOf(topic.top_words, RankedOf(topic))
    /\ \A k \in 1..Len(topic.top_words) : ~DullTerm(topic.top_words[k])

\* no two terms of a topic are variants of one root, and a term of the
\* component that is left out though it is not dull is a variant of a term
\* kept before it, or comes after the fifth
WithoutVariants(topic) ==
    /\ \A k, l \in 1..Len(topic.top_words) :
           k # l => normalize_word(topic.top_words[k])
                        # normalize_word(topic.top_words[l])
    /\ \A k \in 1..Len(topic.top_words) :
           \A i \in 1..Len(RankedOf(topic)) :
               ( /\ normalize_word(RankedOf(topic)[i])
                        = normalize_word(topic.top_words[k])
                 /\ ~DullTerm(RankedOf(topic)[i]) )
                   => \E j \in 1..i : RankedOf(topic)[j] = topic.top_words[k]

\* C24: every topic of get_topics_by_year and of get_topics_by_contact lists
\* at most 5 terms in descending weight, none of them a boring unigram, a
\* bigram of two boring words or shorter than 3 characters, and no two of
\* them variants of one root under normalize_word, the first of several
\* variants being the one kept
C24_TopicTerms ==
    (YearTopicsCalled \/ ContactTopicsCalled) =>
        \A t \in 1..Len(out.value) :
            PlainTerms(out.value[t]) /\ WithoutVariants(out.value[t])

\* what the code does: the topics of both functions have plain terms, and
\* those of get_topics_by_year are without variants
TopicTermsOfYears ==
    /\ (YearTopicsCalled \/ ContactTopicsCalled) =>
           \A t \in 1..Len(out.value) : PlainTerms(out.value[t])
    /\ YearTopicsCalled =>
           \A t \in 1..Len(out.value) : WithoutVariants(out.value[t])

\* a topic of a year from a component that holds two variants of a root
YearWithoutVariants ==
    /\ YearTopicsCalled
    /\ \E t \in 1..Len(out.value) :
           /\ Len(out.value[t].top_words) = 5
           /\ \E i, j \in 1..Len(RankedOf(out.value[t])) :
                  /\ i # j
                  /\ normalize_word(RankedOf(out.value[t])[i])
                         = normalize_word(RankedOf(out.value[t])[j])

(***************************************************************************)
(* C25: a unit the library fails on                                        *)
(***************************************************************************)
WordsCalled == out.fn = "get_unique_words_by_year"

\* the years whose vectorizer raises in get_top_phrases_by_year
FailingYears == {year \in SentYears : Vectorize(YearTexts(year)).failed}

\* the table without the messages of a year
WithoutYear(year) == SelectSeq(df, LAMBDA r : r.year # year)

\* a year get_top_phrases_by_year fails on has no rows, and the rows are
\* those of the table without that year
PhraseFailuresCaught ==
    PhrasesCalled =>
        \A year \in FailingYears :
            /\ Accepted(year) = <<>>
            /\ out.value = get_top_phrases_by_year(WithoutYear(year),
                                                   out.n_phrases)

\* the table without a unit
WithoutUnit(k) == SelectSeq(df, LAMBDA u : u.year # df[k].year)

\* a unit the library fails on in get_topics_by_year or
\* get_topics_by_contact has no rows, and the rows are those of the table
\* without that unit
TopicFailuresCaught ==
    /\ YearTopicsCalled =>
           \A k \in {i \in 1..Len(df) : df[i].failed} :
               /\ \A t \in 1..Len(out.value) : out.value[t].year # df[k].year
               /\ out.value = get_topics_by_year(WithoutUnit(k), 8)
    /\ ContactTopicsCalled =>
           \A k \in {i \in 1..Len(df) : df[i].failed} :
               /\ \A t \in 1..Len(out.value) :
                      out.value[t].contact_name # df[k].contact_name
               /\ out.value = get_topics_by_contact(WithoutUnit(k), 5)

\* C25: when the vectorizer fails for a year, get_top_phrases_by_year and
\* get_unique_words_by_year catch the failure and return normally, the year
\* has no rows and the rows of the other years are those of the table
\* without it
C25_FailuresCaught ==
    /\ PhraseFailuresCaught
    /\ WordsCalled /\ SentYears # {} => ~out.value.raised

\* a year fails in get_top_phrases_by_year while another year has phrases
PhraseFailureSeen ==
    /\ PhrasesCalled
    /\ FailingYears # {}
    /\ out.value # <<>>

\* a unit fails in get_topics_by_year while another unit has topics
TopicFailureSeen ==
    /\ YearTopicsCalled
    /\ \E k \in 1..Len(df) : df[k].failed
    /\ out.value # <<>>

(***************************************************************************)
(* C28: the binary search of extract_substantive_messages                  *)
(***************************************************************************)
ExtractCalled == out.fn = "extract_substantive_messages"

\* the lengths of the messages of the top contacts that are no noise
LengthsOf(top_contacts) ==
    {AllRows(df, top_contacts)[i].length :
        i \in 1..Len(AllRows(df, top_contacts))}

\* C28: whenever the top contacts have a message that is no noise,
\* extract_substantive_messages returns, with a threshold mid between the
\* smallest and the greatest length; also when all lengths are the same
C28_SearchEndsWithThreshold ==
    ExtractCalled =>
        \A lengths \in {LengthsOf(out.top_contacts)} :
            lengths # {} =>
                /\ ~out.value.raised
                /\ \E lo \in lengths, hi \in lengths :
                       /\ \A x \in lengths : lo <= x /\ x <= hi
                       /\ lo <= out.value.mid
                       /\ out.value.mid <= hi

\* whenever the lengths differ, the function returns with a threshold
\* between the smallest and the greatest length
SearchOverDifferentLengths ==
    ExtractCalled =>
        \A lengths \in {LengthsOf(out.top_contacts)} :
            Cardinality(lengths) > 1 =>
                /\ ~out.value.raised
                /\ \E lo \in lengths, hi \in lengths :
                       /\ \A x \in lengths : lo <= x /\ x <= hi
                       /\ lo <= out.value.mid
                       /\ out.value.mid <= hi

\* a search that tested twice
SearchedTwice ==
    /\ ExtractCalled
    /\ LengthsOf(out.top_contacts) = {1, 3, 7}
    /\ out.value.mid = 6

(***************************************************************************)
(* C30: the lines of build_output                                          *)
(***************************************************************************)
\* the calls whose value holds lines of build_output
LinesBuilt ==
    \/ out.fn = "build_output"
    \/ ExtractCalled /\ ~out.value.raised /\ out.value.mid # Unbound

BuiltLines == IF ExtractCalled THEN out.value.lines ELSE out.value

BuiltThreshold == IF ExtractCalled THEN out.value.mid ELSE out.min_length

\* the rows of the table with the messages of a contact that are no noise,
\* and those of them the threshold keeps
CleanRows(contact) ==
    {i \in 1..Len(df) :
        df[i].contact_name = contact /\ ~is_noise(df[i].text)}

KeptRows(contact) ==
    {i \in CleanRows(contact) : Len(df[i].text) >= BuiltThreshold}

\* the lines of a contact: those behind its conversation line, up to the
\* next conversation line
SectionOf(lines, contact) ==
    LET start == CHOOSE h \in 1..Len(lines) :
                     lines[h] = ConversationLine(contact)
        stop == CHOOSE e \in start..Len(lines) :
                    /\ e = Len(lines) \/ lines[e + 1].kind = "conversation"
                    /\ \A j \in (start + 1)..e : lines[j].kind # "conversation"
    IN  SubSeq(lines, start + 1, stop)

RECURSIVE SkippedIn(_)
SkippedIn(section) ==
    IF section = <<>> THEN 0
    ELSE (IF Head(section).kind = "skipped" THEN Head(section).skip_count
          ELSE 0) + SkippedIn(Tail(section))

\* C30: for every contact with a kept message, its message lines and the
\* numbers of its skip lines add up to the number of its messages that are
\* no noise; the message lines are the kept messages in the order of their
\* times; every skip line counts at least one message and no two skip lines
\* are adjacent
C30_LinesAccountForMessages ==
    LinesBuilt =>
        \A lines \in {BuiltLines} :
            /\ \A k \in 1..Len(out.top_contacts) :
                   \A contact \in {out.top_contacts[k]} :
                       KeptRows(contact) # {} =>
                           \A section \in {SectionOf(lines, contact)},
                              messages \in {SelectSeq(SectionOf(lines, contact),
                                               LAMBDA l : l.kind = "message")} :
                               /\ Len(messages) + SkippedIn(section)
                                      = Cardinality(CleanRows(contact))
                               /\ Len(messages) = Cardinality(KeptRows(contact))
                               /\ \A i \in KeptRows(contact) :
                                      messages[1 + Cardinality(
                                          {j \in KeptRows(contact) :
                                              df[j].datetime < df[i].datetime})]
                                          = MessageLine(df[i], contact)
                               /\ \A a, b \in 1..Len(messages) :
                                      a < b =>
                                          messages[a].date_str
                                              <= messages[b].date_str
            /\ \A j \in 1..Len(lines) :
                   lines[j].kind = "skipped" =>
                       /\ lines[j].skip_count >= 1
                       /\ j < Len(lines) => lines[j + 1].kind # "skipped"

\* a contact whose lines are a skip line, a message and a skip line
C30_Witness ==
    /\ out.fn = "build_output"
    /\ \E j \in 1..Len(out.value) - 3 :
           /\ out.value[j].kind = "conversation"
           /\ out.value[j + 1].kind = "skipped"
           /\ out.value[j + 2].kind = "message"
           /\ out.value[j + 3].kind = "skipped"

(***************************************************************************)
(* C27: a table with no rows                                               *)
(***************************************************************************)
\* the aggregates that answer with a table or a list
TableAggregates ==
    {"detect_fading_friendships", "detect_new_connections",
     "get_top_contacts_alltime", "calculate_lopsidedness",
     "get_conversation_initiator_stats", "calculate_response_times"}

\* C27: on a table with no rows get_response_time_stats answers
\* {'available': False}, the two detectors an empty list, and
\* get_top_contacts_alltime, calculate_lopsidedness,
\* get_conversation_initiator_stats and calculate_response_times a table
\* with no rows
C27_EmptyTableEmptyResult ==
    df = <<>> =>
        /\ out.fn = "get_response_time_stats" =>
               out.value = [available |-> FALSE]
        /\ out.fn \in TableAggregates => out.value = <<>>

\* get_conversation_initiator_stats has been called on the table with no rows
C27_Witness ==
    /\ df = <<>>
    /\ out.fn = "get_conversation_initiator_stats"
    /\ out.value = <<>>

EmptyResponseStats ==
    /\ df = <<>>
    /\ out.fn = "get_response_time_stats"

EmptyFading ==
    /\ df = <<>>
    /\ out.fn = "detect_fading_friendships"

(***************************************************************************)
(* C26: collaborators that are not available                               *)
(***************************************************************************)
InsightsGenerated == out.fn = "generate_llm_insights"

\* C26: get_contacts_from_macos returns an empty mapping when the store
\* cannot be read; generate_llm_insights returns an empty dict when the CLI
\* is missing; and when a CLI call times out, raises or exits non-zero
\* without output, that call adds no entry, generate_llm_insights returns a
\* dict without a None value and raises nothing
C26_PlaceholdersForCollaborators ==
    /\ out.fn = "get_contacts_from_macos" /\ out.store # "enumerates" =>
           out.value = EmptyDict
    /\ InsightsGenerated /\ ~out.cli_available =>
           ~out.raised /\ out.value = EmptyDict
    /\ InsightsGenerated =>
           \A i \in 1..2 :
               out.invoked[i] /\ FailedRun(out.runs[i]) =>
                   /\ ~out.raised
                   /\ CACHE_KEYS[i] \notin DOMAIN out.value
                   /\ \A k \in DOMAIN out.value : ~out.value[k].none

\* the first CLI call timed out and the second answered: the dict holds the
\* profile alone
C26_Witness ==
    /\ InsightsGenerated
    /\ out.invoked = <<TRUE, TRUE>>
    /\ out.runs[1] = TimeoutExpired
    /\ DOMAIN out.value = {"psychological_profile"}

\* the store raised, and the CLI was missing
StoreUnreadable ==
    /\ out.fn = "get_contacts_from_macos"
    /\ out.store = "raises"

CliMissing == InsightsGenerated /\ ~out.cli_available

\* a null of the cache file is returned by _generate and filtered
NullFiltered ==
    /\ InsightsGenerated
    /\ out.cli_available
    /\ ~out.raised
    /\ llm.cache_file = FileOf(SetItem(EmptyDict, "wrapped_reflection", None))
    /\ out.invoked[1] = FALSE
    /\ "wrapped_reflection" \notin DOMAIN out.value

(***************************************************************************)
(* C29: the cache of LLMInsights                                           *)
(***************************************************************************)
\* C29: with the CLI available, a call of _generate starts the subprocess
\* exactly when its key is not in the cache; a key in the cache is answered
\* with the stored response, whatever the prompt, and entries stay until
\* clear_cache; a call whose subprocess times out, raises or exits non-zero
\* with empty output returns None and leaves the cache as it was
C29_CacheDiscipline ==
    [][(llm.cli_available /\ out'.fn = "_generate") =>
          \A cache_key \in {out'.cache_key} :
              /\ out'.invoked <=> cache_key \notin DOMAIN llm.cache
              /\ cache_key \in DOMAIN llm.cache =>
                     /\ out'.value = llm.cache[cache_key]
                     /\ llm'.cache = llm.cache
              /\ out'.invoked /\ FailedRun(out'.run) =>
                     /\ out'.value = None
                     /\ llm'.cache = llm.cache
              /\ \A k \in DOMAIN llm.cache :
                     k \in DOMAIN llm'.cache /\ llm'.cache[k] = llm.cache[k]]_vars

\* a response this object stored is returned without a subprocess
C29_Witness ==
    /\ out.fn = "_generate"
    /\ llm.cli_available
    /\ out.cache_key = "psychological_profile"
    /\ ~out.invoked
    /\ out.value = Str(<<97>>)

\* a second subprocess was started and failed, and the cache is still empty
RetriedAfterFailure ==
    /\ out.fn = "_generate"
    /\ out.invoked
    /\ FailedRun(out.run)
    /\ llm.started = 2
    /\ llm.cache = EmptyDict
    /\ llm.cache_file = BadFile

====
